---- MODULE Spec2Model ----
(***************************************************************************)
(* Incremental reader of Flood Modeller log files (floodmodeller_api/logs). *)
(* A session (class LF) reads a growing log file, classifies each new line  *)
(* by prefix, parses the rest of the line, accumulates the values per line  *)
(* type, pads the "many" columns at each iteration marker and at the end of *)
(* a read, and builds a table from the "many" columns.                       *)
(*                                                                           *)
(* Text is a sequence of one-character strings.  Parsed values are tagged   *)
(* tuples: <<"float", n>>, <<"timedelta", seconds>>, <<"str", text>>,        *)
(* <<"list", items>>, and the sentinels <<"nan">>, <<"NaT">>, <<"None">>.    *)
(***************************************************************************)
EXTENDS Integers, Sequences, FiniteSets, TLC

\* ------------------------------------------------------------------ bounds

\* Longest log file of the synchronisation scenarios (Spec).
MaxSyncLines == 5

\* Longest log file of the progress scenarios (SpecProgress).
MaxProgressLines == 3

\* Longest log file of the scenarios with distinct values (SpecOrder).
MaxOrderLines == 4

\* Longest log file of the scenarios with two threads (SpecThreads).
MaxThreadLines == 2

\* Longest log file of the scenarios in which the simulation restarts
\* (SpecRestart).
MaxRestartLines == 2

\* Longest log file of the parsing scenarios (SpecParse).
MaxParseLines == 1

\* Longest log file of the scenarios read line by line (SpecSteps).
MaxStepLines == 3

\* Most values a Data object is given (SpecData).
MaxDataValues == 2

\* Most values the parser of a session is given (SpecProcess).
MaxSessionValues == 2

\* Longest log file of the factory scenarios (SpecFactory).
MaxFactoryLines == 2

\* Longest log file of the scenarios of the older reader (SpecLF1).
MaxLF1Lines == 4

\* ------------------------------------------------------- python str model

Whitespace == {" "}

Digits == {"0", "1", "2"}

\* str.startswith
StartsWith(s, p) ==
    /\ Len(p) <= Len(s)
    /\ SubSeq(s, 1, Len(p)) = p

\* Index of the first occurrence of sep in s at or after position i, 0 if none.
RECURSIVE FindFrom(_, _, _)
FindFrom(s, sep, i) ==
    IF i + Len(sep) - 1 > Len(s) THEN 0
    ELSE IF SubSeq(s, i, i + Len(sep) - 1) = sep THEN i
    ELSE FindFrom(s, sep, i + 1)

\* str.split(sep) for a non-empty separator: every segment, empty ones kept.
RECURSIVE Split(_, _)
Split(s, sep) ==
    LET i == FindFrom(s, sep, 1)
    IN  IF i = 0 THEN <<s>>
        ELSE <<SubSeq(s, 1, i - 1)>> \o Split(SubSeq(s, i + Len(sep), Len(s)), sep)

\* str.lstrip()
RECURSIVE LStrip(_)
LStrip(s) ==
    IF s # <<>> /\ Head(s) \in Whitespace THEN LStrip(Tail(s)) ELSE s

\* str.rstrip()
RECURSIVE RStrip(_)
RStrip(s) ==
    IF s # <<>> /\ s[Len(s)] \in Whitespace THEN RStrip(SubSeq(s, 1, Len(s) - 1)) ELSE s

\* str.strip()
Strip(s) == RStrip(LStrip(s))

\* str.split() without argument: the runs of non-whitespace characters.
RECURSIVE SplitWhitespace(_)
SplitWhitespace(s) ==
    LET t == LStrip(s)
        i == FindFrom(t, <<" ">>, 1)
    IN  IF t = <<>> THEN <<>>
        ELSE IF i = 0 THEN <<t>>
        ELSE <<SubSeq(t, 1, i - 1)>> \o SplitWhitespace(SubSeq(t, i + 1, Len(t)))

\* The "in" operator on two strings: substring containment.
IsSubstring(a, b) ==
    \E i \in 1..(Len(b) + 1) : i + Len(a) - 1 <= Len(b) /\ SubSeq(b, i, i + Len(a) - 1) = a

DigitValue(c) ==
    CASE c = "0" -> 0
      [] c = "1" -> 1
      [] c = "2" -> 2

\* Value of a string of decimal digits.
RECURSIVE DecimalValue(_)
DecimalValue(s) ==
    IF s = <<>> THEN 0
    ELSE 10 * DecimalValue(SubSeq(s, 1, Len(s) - 1)) + DigitValue(s[Len(s)])

IsDigits(t) == t # <<>> /\ \A i \in 1..Len(t) : t[i] \in Digits

\* Whether int(s) / float(s) accept s: surrounding whitespace is ignored and
\* what is left must be a number (here: a non-empty string of digits).
IsNumber(s) == IsDigits(Strip(s))

NumberValue(s) == DecimalValue(Strip(s))

\* ----------------------------------------------------------------- values

None == <<"None">>

NaN == <<"nan">>

NaT == <<"NaT">>

Float(n) == <<"float", n>>

TimeDelta(seconds) == <<"timedelta", seconds>>

Str(s) == <<"str", s>>

List(items) == <<"list", items>>

\* A parser's outcome: a value, or the exception it raised.
Ok(v) == [ok |-> TRUE, v |-> v, exc |-> "none"]

Raise(e) == [ok |-> FALSE, v |-> None, exc |-> e]

\* ------------------------------------------------------------ line types

\* One entry of a data_to_extract table: the arguments a line type is built
\* from.  exclude is None or Str(text); names lists the sub-values of a
\* multi-value line.
LineType(key, class, prefix, type, index, before_index, exclude, names) ==
    [key |-> key, class |-> class, prefix |-> prefix, type |-> type,
     index |-> index, before_index |-> before_index, exclude |-> exclude,
     names |-> names]

\* A data_to_extract table, a dict: its keys in the order of declaration,
\* the entry of each key, the keys of type "many", and the table column
\* (key and position in the line's items) behind each column name.
Dict(entries) ==
    LET item == [key \in {entries[i].key : i \in 1..Len(entries)} |->
                    entries[CHOOSE i \in 1..Len(entries) : entries[i].key = key]]
        many == {key \in DOMAIN item : item[key].type = "many"}
        names == UNION {IF item[key].class = "TimeFloatMult"
                        THEN {item[key].names[j] : j \in 1..Len(item[key].names)}
                        ELSE {key} : key \in many}
    IN  [order |-> [i \in 1..Len(entries) |-> entries[i].key],
         item |-> item,
         many |-> many,
         columns |-> [name \in names |->
                        LET key == CHOOSE k \in many :
                                       IF item[k].class = "TimeFloatMult"
                                       THEN \E j \in 1..Len(item[k].names) : item[k].names[j] = name
                                       ELSE k = name
                        IN  [key |-> key,
                             position |-> IF item[key].class = "TimeFloatMult"
                                          THEN CHOOSE j \in 1..Len(item[key].names) :
                                                   item[key].names[j] = name
                                          ELSE 0]]]

\* Unsteady .lf1 runs: progress, and three per-iteration columns around the
\* "elapsed" marker.
lf1_unsteady_data_to_extract ==
    Dict(<< LineType("version", "String", <<"V">>, "last", FALSE, FALSE, None, <<>>),
            LineType("progress", "Float", <<"P">>, "last", FALSE, FALSE, Str(<<"*", "*">>), <<>>),
            LineType("iter", "Float", <<"I">>, "many", FALSE, TRUE, Str(<<"*", "*">>), <<>>),
            LineType("elapsed", "TimeDeltaHMS", <<"E">>, "many", TRUE, FALSE, None, <<>>),
            LineType("flow", "Float", <<"F">>, "many", FALSE, FALSE, None, <<>>) >>)

\* Steady .lf1 runs: no progress line type.
lf1_steady_data_to_extract ==
    Dict(<< LineType("version", "String", <<"V">>, "last", FALSE, FALSE, None, <<>>),
            LineType("elapsed", "TimeDeltaHMS", <<"E">>, "many", TRUE, FALSE, None, <<>>),
            LineType("flow", "Float", <<"F">>, "many", FALSE, FALSE, None, <<>>) >>)

\* .lf2 runs: two line types with overlapping prefixes ("V" and "VD"), a
\* multi-value line and a string column with an expected-missing text.
lf2_data_to_extract ==
    Dict(<< LineType("version", "String", <<"V">>, "last", FALSE, FALSE, None, <<>>),
            LineType("version_date", "String", <<"V", "D">>, "last", FALSE, FALSE, None, <<>>),
            LineType("progress", "Float", <<"P">>, "last", FALSE, FALSE, Str(<<"*", "*">>), <<>>),
            LineType("simulated", "TimeDeltaHMS", <<"E">>, "many", TRUE, FALSE, Str(<<"*", "*">>), <<>>),
            LineType("conv", "TimeFloatMult", <<"C">>, "many", FALSE, FALSE, Str(<<"*", "*">>),
                     <<"time", "q">>),
            LineType("note", "String", <<"S">>, "many", FALSE, FALSE, Str(<<"*">>), <<>>) >>)

\* The table of the older reader (lf1.py): type "many" stands for its stage
\* "run" and index for its defines_iters; it has no before_index.
lf1_params_data_to_extract ==
    Dict(<< LineType("version", "String", <<"V">>, "last", FALSE, FALSE, None, <<>>),
            LineType("iter", "Float", <<"I">>, "many", FALSE, FALSE, None, <<>>),
            LineType("elapsed", "TimeDeltaHMS", <<"E">>, "many", TRUE, FALSE, None, <<>>),
            LineType("flow", "Float", <<"F">>, "many", FALSE, FALSE, None, <<>>) >>)

TableNamed(name) ==
    CASE name = "lf1_unsteady_data_to_extract" -> lf1_unsteady_data_to_extract
      [] name = "lf1_steady_data_to_extract" -> lf1_steady_data_to_extract
      [] name = "lf2_data_to_extract" -> lf2_data_to_extract
      [] name = "lf1_params_data_to_extract" -> lf1_params_data_to_extract
      [] OTHER -> Dict(<<>>)

\* ---------------------------------------------------------------- parsers

\* FloatParser._process_line: float(raw)
FloatParser(raw) ==
    IF IsNumber(raw) THEN Ok(Float(NumberValue(raw))) ELSE Raise("ValueError")

\* A variant of TimeDeltaOfParts that reads the parts as h, s, m.
TimeDeltaOfParts_swapped(parts) ==
    IF Len(parts) # 3 THEN Raise("ValueError")
    ELSE IF \E i \in 1..3 : ~IsNumber(parts[i]) THEN Raise("ValueError")
    ELSE Ok(TimeDelta(3600 * NumberValue(parts[1]) + 60 * NumberValue(parts[3])
                      + NumberValue(parts[2])))

\* dt.timedelta(hours=int(h), minutes=int(m), seconds=int(s)) for h, m, s = parts
TimeDeltaOfParts(parts) ==
    IF Len(parts) # 3 THEN Raise("ValueError")
    ELSE IF \E i \in 1..3 : ~IsNumber(parts[i]) THEN Raise("ValueError")
    ELSE Ok(TimeDelta(3600 * NumberValue(parts[1]) + 60 * NumberValue(parts[2])
                      + NumberValue(parts[3])))

\* TimeDeltaHMSParser._process_line: h, m, s = raw.split(":"), each an int
TimeDeltaHMSParser(raw) == TimeDeltaOfParts(Split(raw, <<":">>))

\* StringParser._process_line: the text itself
StringParser(raw) == Ok(Str(raw))

\* [float(x) for x in items], then processed[0] as a duration in hours
TimeFloatsOfItems(items) ==
    IF \E i \in 1..Len(items) : ~IsNumber(items[i]) THEN Raise("ValueError")
    ELSE IF items = <<>> THEN Raise("IndexError")
    ELSE Ok(List([i \in 1..Len(items) |->
                    IF i = 1 THEN TimeDelta(3600 * NumberValue(items[i]))
                    ELSE Float(NumberValue(items[i]))]))

\* TimeFloatMultParser._process_line: a float per whitespace-separated item,
\* the first one then turned into a duration in hours.
TimeFloatMultParser(raw) == TimeFloatsOfItems(SplitWhitespace(raw))

_process_line(line_type, raw) ==
    CASE line_type.class = "Float" -> FloatParser(raw)
      [] line_type.class = "TimeDeltaHMS" -> TimeDeltaHMSParser(raw)
      [] line_type.class = "String" -> StringParser(raw)
      [] line_type.class = "TimeFloatMult" -> TimeFloatMultParser(raw)

\* The missing value of each kind of line type.
_nan(line_type) ==
    CASE line_type.class = "Float" -> NaN
      [] line_type.class = "TimeDeltaHMS" -> NaT
      [] line_type.class = "String" -> Str(<<>>)
      [] line_type.class = "TimeFloatMult" -> List([i \in 1..Len(line_type.names) |-> NaN])

\* raw_line in self._exclude: None is not iterable, a str is searched.
InExclude(raw, exclude) ==
    IF exclude = None THEN Raise("TypeError")
    ELSE Ok(IsSubstring(raw, exclude[2]))

\* A variant of ExpectedNan without the except clause: every exception of the
\* parser propagates.
ExpectedNan_reraised(line_type, raw_line, processed) == processed

\* The except clause of process_line: a ValueError on a text found in exclude
\* gives the missing value, any other exception propagates.
ExpectedNan(line_type, raw_line, processed) ==
    LET found == InExclude(raw_line, line_type.exclude)
    IN  IF processed.ok THEN processed
        ELSE IF processed.exc # "ValueError" THEN processed
        ELSE IF ~found.ok THEN Raise(found.exc)
        ELSE IF found.v THEN Ok(_nan(line_type))
        ELSE Raise("ValueError")

\* _process_line with the handling of expected missing values.
process_line_wrapper(line_type, raw_line) ==
    ExpectedNan(line_type, raw_line, _process_line(line_type, raw_line))

\* ----------------------------------------------------------------- data

\* A fresh accumulator: an empty list ("many") or an unset value ("last").
NewData(line_type) ==
    IF line_type.type = "many" THEN [value |-> <<>>, no_values |-> 0]
    ELSE [value |-> None, no_values |-> 0]

\* A variant of update_value_wrapper in which a "last" value, once set, stays.
update_value_wrapper_first(line_type, data, processed_line) ==
    IF line_type.type = "many"
    THEN [value |-> Append(data.value, processed_line), no_values |-> data.no_values + 1]
    ELSE IF data.value = None THEN [value |-> processed_line, no_values |-> 1]
    ELSE data

\* A variant of update_value_wrapper that puts a new value in front of a list.
update_value_wrapper_prepend(line_type, data, processed_line) ==
    IF line_type.type = "many"
    THEN [value |-> <<processed_line>> \o data.value, no_values |-> data.no_values + 1]
    ELSE [value |-> processed_line, no_values |-> 1]

\* AllData.update appends, LastData.update overwrites.
update_value_wrapper(line_type, data, processed_line) ==
    IF line_type.type = "many"
    THEN [value |-> Append(data.value, processed_line), no_values |-> data.no_values + 1]
    ELSE [value |-> processed_line, no_values |-> 1]

\* -------------------------------------------------------------- session

VARIABLES
    file,       \* the log file on disk: the lines written so far
    phase,      \* "new" before lf_factory is called, then "live" or "failed"
    lf,         \* the LF object: its fields, and exc, what its last call raised
    pre_sync,   \* _extracted_data on entry to the last _final_sync_cols
    ran_final,  \* whether the last call ran the final steps
    finals,     \* reads that ran the final steps since the last reset (up to 2)
    reads,      \* reads since the last reset (up to 2)
    threads,    \* the calls of read in progress, one per thread, and whether
                \* two of them have ever been in progress at the same time
    data_obj,   \* a Data object of lf_helpers (self), what its last get_value
                \* returned, and the arguments of that call
    process     \* the list of sub-value names in the line-type table of the
                \* module, and the parser each session of the process built
                \* from it

vars == <<file, phase, lf, pre_sync, ran_final, finals, reads, threads, data_obj, process>>

NoExc == [type |-> "none", method |-> "none"]

Exc(type, method) == [type |-> type, method |-> method]

NoDataFrame == [exists |-> FALSE, run |-> <<>>]

\* The object before __init__ has set anything.
Blank ==
    [_filetype |-> "none", _steady |-> FALSE, _raw_data |-> <<>>, _no_lines |-> 0,
     _no_iters |-> 0, _data_to_extract |-> "none", report_progress |-> "none",
     _extracted_data |-> <<>>, attrs |-> FALSE, df |-> NoDataFrame, exc |-> NoExc]

DataToExtract(self) == TableNamed(self._data_to_extract)

\* A variant of _init_counters that leaves the iteration counter as it is.
_init_counters_lines(self) == [self EXCEPT !._no_lines = 0]

_init_counters(self) == [self EXCEPT !._no_lines = 0, !._no_iters = 0]

\* A variant of _init_params_and_progress that binds _report_progress in
\* every mode.
_init_params_and_progress_bound(self) ==
    IF self._filetype = "LF2"
    THEN [self EXCEPT !._data_to_extract = "lf2_data_to_extract",
                      !.report_progress = "_report_progress"]
    ELSE IF self._steady
    THEN [self EXCEPT !._data_to_extract = "lf1_steady_data_to_extract",
                      !.report_progress = "_report_progress"]
    ELSE [self EXCEPT !._data_to_extract = "lf1_unsteady_data_to_extract",
                      !.report_progress = "_report_progress"]

\* LF1._init_params_and_progress and LF2._init_params_and_progress
_init_params_and_progress(self) ==
    IF self._filetype = "LF2"
    THEN [self EXCEPT !._data_to_extract = "lf2_data_to_extract",
                      !.report_progress = "_report_progress"]
    ELSE IF self._steady
    THEN [self EXCEPT !._data_to_extract = "lf1_steady_data_to_extract",
                      !.report_progress = "_no_report_progress"]
    ELSE [self EXCEPT !._data_to_extract = "lf1_unsteady_data_to_extract",
                      !.report_progress = "_report_progress"]

_init_line_types(self) ==
    [self EXCEPT !._extracted_data =
        [key \in DOMAIN DataToExtract(self).item |-> NewData(DataToExtract(self).item[key])]]

\* A variant of _sync_cols that pads nothing.
_sync_cols_skipped(self) == self

\* A variant of _sync_cols that pads a list as long as the iteration count
\* (<= for <).
_sync_cols_inclusive(self) ==
    [self EXCEPT !._extracted_data =
        [key \in DOMAIN self._extracted_data |->
            LET line_type == DataToExtract(self).item[key]
                data == self._extracted_data[key]
            IN  IF /\ line_type.index = FALSE
                   /\ line_type.type = "many"
                   /\ data.no_values <= self._no_iters + (IF line_type.before_index THEN 1 ELSE 0)
                THEN update_value_wrapper(line_type, data, _nan(line_type))
                ELSE data]]

\* Pads by one missing value each "many" line type, other than the marker,
\* that has fewer values than iterations.
_sync_cols(self) ==
    [self EXCEPT !._extracted_data =
        [key \in DOMAIN self._extracted_data |->
            LET line_type == DataToExtract(self).item[key]
                data == self._extracted_data[key]
            IN  IF /\ line_type.index = FALSE
                   /\ line_type.type = "many"
                   /\ data.no_values < self._no_iters + (IF line_type.before_index THEN 1 ELSE 0)
                THEN update_value_wrapper(line_type, data, _nan(line_type))
                ELSE data]]

\* Length of the longest "many" list in extracted_data.
MaxLength(many, extracted_data) ==
    LET lengths == {Len(extracted_data[key].value) : key \in many} \cup {0}
    IN  CHOOSE m \in lengths : \A n \in lengths : n <= m

\* A variant of _final_sync_cols that pads a list two short only once.
_final_sync_cols_once(self) ==
    LET max_length == MaxLength(DataToExtract(self).many, self._extracted_data)
    IN  [self EXCEPT !._extracted_data =
            [key \in DOMAIN self._extracted_data |->
                LET line_type == DataToExtract(self).item[key]
                    data == self._extracted_data[key]
                IN  IF line_type.type # "many" THEN data
                    ELSE IF Len(data.value) \in {max_length - 1, max_length - 2}
                    THEN update_value_wrapper(line_type, data, _nan(line_type))
                    ELSE data]]

\* Pads the "many" lists that are one or two short of the longest.
_final_sync_cols(self) ==
    LET max_length == MaxLength(DataToExtract(self).many, self._extracted_data)
    IN  [self EXCEPT !._extracted_data =
            [key \in DOMAIN self._extracted_data |->
                LET line_type == DataToExtract(self).item[key]
                    data == self._extracted_data[key]
                    once == update_value_wrapper(line_type, data, _nan(line_type))
                IN  IF line_type.type # "many" THEN data
                    ELSE IF Len(data.value) = max_length - 1 THEN once
                    ELSE IF Len(data.value) = max_length - 2
                    THEN update_value_wrapper(line_type, once, _nan(line_type))
                    ELSE data]]

\* A variant of EndIteration that counts an iteration for every line a line
\* type matches.
EndIteration_every(self, line_type) ==
    IF line_type.index THEN [_sync_cols(self) EXCEPT !._no_iters = @ + 1]
    ELSE [self EXCEPT !._no_iters = @ + 1]

\* Lines 109-111: a marker line ends an iteration.
EndIteration(self, line_type) ==
    IF line_type.index THEN [_sync_cols(self) EXCEPT !._no_iters = @ + 1] ELSE self

\* Lines 105-111: the value is stored, unless the parser raised.
StoreLine(self, line_type, processed_line) ==
    IF ~processed_line.ok
    THEN [self EXCEPT !.exc = Exc(processed_line.exc, "_update_line_types")]
    ELSE EndIteration([self EXCEPT !._extracted_data[line_type.key] =
                            update_value_wrapper(line_type, @, processed_line.v)],
                      line_type)

\* Line 103: everything after the prefix, up to its next occurrence, without
\* the leading whitespace.
end_of_line(line_type, raw_line) == LStrip(Split(raw_line, line_type.prefix)[2])

\* Lines 96-111: one line type tried on one raw line.
ProcessLineType(self, raw_line, line_type) ==
    IF self.exc # NoExc \/ ~StartsWith(raw_line, line_type.prefix) THEN self
    ELSE StoreLine(self, line_type,
                   process_line_wrapper(line_type, end_of_line(line_type, raw_line)))

\* Lines 96-111: every line type, from the i-th on, in the table's order.
RECURSIVE ProcessLineTypes(_, _, _)
ProcessLineTypes(self, raw_line, i) ==
    IF i > Len(DataToExtract(self).order) THEN self
    ELSE ProcessLineTypes(
            ProcessLineType(self, raw_line,
                            DataToExtract(self).item[DataToExtract(self).order[i]]),
            raw_line, i + 1)

\* A variant of CountLine that counts the line an exception ended the loop at.
CountLine_always(self) == [self EXCEPT !._no_lines = @ + 1]

\* A variant of CountLine that counts every line twice.
CountLine_twice(self) ==
    IF self.exc # NoExc THEN self ELSE [self EXCEPT !._no_lines = @ + 2]

\* Line 114: the line is counted, unless an exception ended the loop.
CountLine(self) ==
    IF self.exc # NoExc THEN self ELSE [self EXCEPT !._no_lines = @ + 1]

\* Lines 93-114: one raw line, then the counter.
ProcessRawLine(self, raw_line) == CountLine(ProcessLineTypes(self, raw_line, 1))

\* Every line of _raw_data that has not been read yet.
RECURSIVE _update_line_types(_)
_update_line_types(self) ==
    IF self.exc # NoExc \/ self._no_lines >= Len(self._raw_data) THEN self
    ELSE _update_line_types(ProcessRawLine(self, self._raw_data[self._no_lines + 1]))

_set_attributes(self) == [self EXCEPT !.attrs = TRUE]

_del_attributes(self) ==
    IF self.attrs THEN [self EXCEPT !.attrs = FALSE]
    ELSE [self EXCEPT !.exc = Exc("AttributeError", "_del_attributes")]

_del_dataframe(self) ==
    IF self.df.exists THEN [self EXCEPT !.df = NoDataFrame]
    ELSE [self EXCEPT !.exc = Exc("AttributeError", "_del_dataframe")]

\* A variant of RunDict that takes the first sub-value for every column of a
\* multi-value line type.
RunDict_first(self) ==
    [name \in DOMAIN DataToExtract(self).columns |->
        LET column == DataToExtract(self).columns[name]
            value == self._extracted_data[column.key].value
        IN  IF column.position = 0 THEN value
            ELSE [n \in 1..Len(value) |-> value[n][2][1]]]

\* A variant of RunDict that lists the rows from the last to the first.
RunDict_reversed(self) ==
    [name \in DOMAIN DataToExtract(self).columns |->
        LET column == DataToExtract(self).columns[name]
            value == self._extracted_data[column.key].value
        IN  IF column.position = 0 THEN [n \in 1..Len(value) |-> value[Len(value) + 1 - n]]
            ELSE [n \in 1..Len(value) |-> value[Len(value) + 1 - n][2][column.position]]]

\* The dictionary "run": a list per column.
RunDict(self) ==
    [name \in DOMAIN DataToExtract(self).columns |->
        LET column == DataToExtract(self).columns[name]
            value == self._extracted_data[column.key].value
        IN  IF column.position = 0 THEN value
            ELSE [n \in 1..Len(value) |-> value[n][2][column.position]]]

\* item[i] for an item with fewer entries than names.
ShortItem(self) ==
    \E key \in DataToExtract(self).many :
        LET line_type == DataToExtract(self).item[key]
            value == self._extracted_data[key].value
        IN  /\ line_type.class = "TimeFloatMult"
            /\ \E n \in 1..Len(value) : Len(value[n][2]) < Len(line_type.names)

\* A variant of SameLength for a table builder that takes any lists.
SameLength_any(self) == TRUE

\* pd.DataFrame(run) refuses lists of different lengths.
SameLength(self) ==
    \A key \in DataToExtract(self).many :
        Len(self._extracted_data[key].value)
            = MaxLength(DataToExtract(self).many, self._extracted_data)

_create_dataframe(self) ==
    IF ShortItem(self) THEN [self EXCEPT !.exc = Exc("IndexError", "_create_dataframe")]
    ELSE IF ~SameLength(self) THEN [self EXCEPT !.exc = Exc("ValueError", "_create_dataframe")]
    ELSE [self EXCEPT !.df = [exists |-> TRUE, run |-> RunDict(self)]]

\* Lines 47-51 of _read: the reset a forced re-read starts with.
ForceReread(self) ==
    LET a == _del_attributes(self)
        b == IF a.exc # NoExc THEN a ELSE _del_dataframe(a)
    IN  IF b.exc # NoExc THEN b ELSE _init_line_types(_init_counters(b))

\* Lines 56-59 of _read: the final steps.
FinalSteps(self) ==
    IF self.exc # NoExc THEN self
    ELSE _create_dataframe(_set_attributes(_final_sync_cols(self)))

\* A variant of BeforeFinalSteps that sets the counters to zero on every read.
BeforeFinalSteps_recount(self, lines, force_reread) ==
    LET opened == [self EXCEPT !._raw_data = lines, !.exc = NoExc]
        reset == IF force_reread THEN ForceReread(opened) ELSE _init_counters(opened)
    IN  _update_line_types(reset)

\* The state of the object when the final steps start (an exception earlier
\* in the read skips them).
BeforeFinalSteps(self, lines, force_reread) ==
    LET opened == [self EXCEPT !._raw_data = lines, !.exc = NoExc]
        reset == IF force_reread THEN ForceReread(opened) ELSE opened
    IN  _update_line_types(reset)

\* A variant of AfterRead that runs the final steps whatever the flag.
AfterRead_unsuppressed(processed, suppress_final_steps) ==
    FinalSteps(processed)

\* Lines 56-59 of _read, after the processing of the new lines.
AfterRead(processed, suppress_final_steps) ==
    IF suppress_final_steps THEN processed ELSE FinalSteps(processed)

_read(self, lines, force_reread, suppress_final_steps) ==
    AfterRead(BeforeFinalSteps(self, lines, force_reread), suppress_final_steps)

\* LF.__init__ up to the final steps of its _read, for the class and mode
\* lf_factory chose.
NewSession(filetype, steady, lines) ==
    BeforeFinalSteps(
        _init_line_types(_init_params_and_progress(_init_counters(
            [Blank EXCEPT !._filetype = filetype, !._steady = steady]))),
        lines, FALSE)

\* self.report_progress(): the method bound by _init_params_and_progress.
report_progress(self) ==
    IF self.report_progress = "_no_report_progress" THEN Raise("NotImplementedError")
    ELSE IF "progress" \notin DOMAIN self._extracted_data THEN Raise("KeyError")
    ELSE IF self._extracted_data["progress"].value = None THEN Ok(Float(0))
    ELSE Ok(self._extracted_data["progress"].value)

\* ---------------------------------------------------------------- actions

Min(a, b) == IF a < b THEN a ELSE b

\* The simulation writes one more line to the log file.
FileAppend(lines, max) ==
    \E line \in lines :
        /\ Len(file) < max
        /\ file' = Append(file, line)
        /\ UNCHANGED <<phase, lf, pre_sync, ran_final, finals, reads, threads, data_obj, process>>

\* What a call of _read leaves, given the object as it is when the final
\* steps start: reset tells whether a forced re-read emptied the object.
ReadEffects(before, reset, consumed, suppress_final_steps) ==
    /\ lf' = AfterRead(before, suppress_final_steps)
    /\ ran_final' = (~suppress_final_steps /\ before.exc = NoExc)
    /\ pre_sync' = IF ~suppress_final_steps /\ before.exc = NoExc
                   THEN before._extracted_data ELSE <<>>
    /\ finals' = Min(2, (IF reset THEN 0 ELSE finals)
                        + (IF ~suppress_final_steps /\ before.exc = NoExc THEN 1 ELSE 0))
    /\ reads' = Min(2, (IF reset THEN 0 ELSE reads)
                       + (IF before._no_lines > consumed THEN 1 ELSE 0))

\* A variant of lf_factory that builds an LF1 session for "lf1" and an LF2
\* session for any other suffix, steady or not.
lf_factory_lenient(suffix, steady) ==
    /\ phase = "new"
    /\ ReadEffects(NewSession(IF suffix = "lf1" THEN "LF1" ELSE "LF2",
                              suffix = "lf1" /\ steady, file),
                   TRUE, 0, FALSE)
    /\ phase' = IF lf'.exc = NoExc THEN "live" ELSE "failed"
    /\ UNCHANGED <<file, threads, data_obj, process>>

\* lf_factory(filepath, suffix, steady): the session is built and reads the
\* file as it is now; an exception leaves the caller without a session.
lf_factory(suffix, steady) ==
    /\ phase = "new"
    /\ IF (suffix = "lf1") \/ (suffix = "lf2" /\ steady)
       THEN /\ ReadEffects(NewSession(IF suffix = "lf1" THEN "LF1" ELSE "LF2",
                                      suffix = "lf1" /\ steady, file),
                           TRUE, 0, FALSE)
            /\ phase' = IF lf'.exc = NoExc THEN "live" ELSE "failed"
       ELSE /\ lf' = [Blank EXCEPT !.exc = Exc("ValueError", "lf_factory")]
            /\ phase' = "failed"
            /\ ran_final' = FALSE
            /\ pre_sync' = <<>>
            /\ finals' = 0
            /\ reads' = 0
    /\ UNCHANGED <<file, threads, data_obj, process>>

\* LF.read(force_reread, suppress_final_steps)
read(force_reread, suppress_final_steps) ==
    /\ phase = "live"
    /\ ReadEffects(BeforeFinalSteps(lf, file, force_reread),
                   force_reread /\ lf.attrs /\ lf.df.exists,
                   IF force_reread /\ lf.attrs /\ lf.df.exists THEN 0 ELSE lf._no_lines,
                   suppress_final_steps)
    /\ UNCHANGED <<file, phase, threads, data_obj, process>>

\* The threads that call read on the one session.
Threads == {"a", "b"}

\* No call of read is in progress.
NoCalls ==
    [call |-> [t \in Threads |-> [pc |-> "idle", raw_lines |-> <<>>]],
     overlapped |-> FALSE]

\* No Data object has been made.
NoData == [class |-> "none"]

\* get_value has not been called since the object was made or last updated.
NotCalled == [kind |-> "none"]

\* The sessions of one process.
Sessions == {"first", "second"}

\* The sub-value names of the multi-value entry of the line-type table.
lf_params_subheaders == <<"simulated_duplicate", "mass_error">>

\* A session that has not built its parser.
NoParser ==
    [line_type |-> LineType("none", "none", <<>>, "many", FALSE, FALSE, None, <<>>),
     data |-> NoData]

Init ==
    /\ threads = NoCalls
    /\ process = [subheaders |-> lf_params_subheaders,
                  parser |-> [s \in Sessions |-> NoParser]]
    /\ data_obj = [self |-> NoData, returned |-> NotCalled, args |-> <<>>]
    /\ file = <<>>
    /\ phase = "new"
    /\ lf = Blank
    /\ pre_sync = <<>>
    /\ ran_final = FALSE
    /\ finals = 0
    /\ reads = 0

\* ------------------------------------------------- synchronisation scenarios

SyncLines ==
    { <<"I", "1">>, <<"E", "0", ":", "0", ":", "1">>, <<"F", "2">> }

Next ==
    \/ FileAppend(SyncLines, MaxSyncLines)
    \/ lf_factory("lf1", FALSE)
    \/ \E force_reread, suppress_final_steps \in BOOLEAN :
            read(force_reread, suppress_final_steps)

Spec == Init /\ [][Next]_vars

\* Progress reporting: an unsteady or a steady LF1 session on a log that
\* holds progress lines (one of them malformed), marker lines and nothing else.
ProgressLines ==
    { <<"P", "1">>, <<"P", "2">>, <<"P", "*", "*">>, <<"P", "x">>,
      <<"E", "0", ":", "0", ":", "1">> }

NextProgress ==
    \/ FileAppend(ProgressLines, MaxProgressLines)
    \/ \E steady \in BOOLEAN : lf_factory("lf1", steady)
    \/ \E force_reread, suppress_final_steps \in BOOLEAN :
            read(force_reread, suppress_final_steps)

SpecProgress == Init /\ [][NextProgress]_vars

\* Parsing: an LF2 session on a log whose lines are a prefix of the table
\* followed by text that its parser accepts, rejects or finds excluded.
Residuals ==
    { <<>>, <<"1">>, <<"*">>, <<"*", "*">>, <<"x">>, <<" ", "1">>,
      <<"1", " ", "2">>, <<"1", " ", "x">>, <<"0", ":", "0", ":", "1">> }

ParseLines ==
    { lf2_data_to_extract.item[key].prefix \o residual :
        key \in DOMAIN lf2_data_to_extract.item, residual \in Residuals }

NextParse ==
    \/ FileAppend(ParseLines, MaxParseLines)
    \/ lf_factory("lf2", TRUE)
    \/ \E force_reread, suppress_final_steps \in BOOLEAN :
            read(force_reread, suppress_final_steps)

SpecParse == Init /\ [][NextParse]_vars

\* Restart: the simulation is run again and writes its log anew, so the
\* file a read opens can be shorter than the one the read before it opened.
Restart ==
    /\ file # <<>>
    /\ file' = <<>>
    /\ UNCHANGED <<phase, lf, pre_sync, ran_final, finals, reads, threads, data_obj, process>>

NextRestart ==
    \/ FileAppend(SyncLines, MaxRestartLines)
    \/ Restart
    \/ lf_factory("lf1", FALSE)
    \/ \E force_reread, suppress_final_steps \in BOOLEAN :
            read(force_reread, suppress_final_steps)

SpecRestart == Init /\ [][NextRestart]_vars

\* Order of the values: an unsteady LF1 session on a log of lines that carry
\* two different values per line type, written as the simulation writes them
\* (a space after the prefix, two digits per part of a time).
OrderLines ==
    { <<"I", " ", "1">>, <<"I", " ", "2">>,
      <<"E", " ", "0", "0", ":", "0", "0", ":", "0", "1">>,
      <<"E", " ", "0", "0", ":", "0", "0", ":", "0", "2">> }

NextOrder ==
    \/ FileAppend(OrderLines, MaxOrderLines)
    \/ lf_factory("lf1", FALSE)
    \/ \E force_reread, suppress_final_steps \in BOOLEAN :
            read(force_reread, suppress_final_steps)

SpecOrder == Init /\ [][NextOrder]_vars

\* Two threads call read() on the one session with no lock between them.
\* A call is a sequence of steps, each a statement or a block of _read and
\* _update_line_types, and the steps of the two calls interleave.

\* A variant of RawLinesFrom that takes every line of the file.
RawLinesFrom_start(self) == self._raw_data

\* Line 92: raw_lines = self._raw_data[self._no_lines :]
RawLinesFrom(self) == SubSeq(self._raw_data, self._no_lines + 1, Len(self._raw_data))

\* The thread's call moves to pc with raw_lines left to process.
Moved(t, pc, raw_lines) ==
    [threads EXCEPT !.call[t] = [pc |-> pc, raw_lines |-> raw_lines]]

\* Lines 43-44: the thread's call opens the file and stores its lines.
Open(t) ==
    /\ phase = "live"
    /\ threads.call[t].pc = "idle"
    /\ lf' = [lf EXCEPT !._raw_data = file, !.exc = NoExc]
    /\ threads' = [Moved(t, "opened", <<>>) EXCEPT
                      !.overlapped = @ \/ \E u \in Threads : threads.call[u].pc # "idle"]
    /\ UNCHANGED <<file, phase, pre_sync, ran_final, finals, reads, data_obj, process>>

\* Line 92: the thread's call takes the lines after the cursor.
Snapshot(t) ==
    /\ threads.call[t].pc = "opened"
    /\ threads' = Moved(t, "loop", RawLinesFrom(lf))
    /\ reads' = Min(2, reads + (IF RawLinesFrom(lf) # <<>> THEN 1 ELSE 0))
    /\ UNCHANGED <<file, phase, lf, pre_sync, ran_final, finals, data_obj, process>>

\* Lines 93-114: the thread's call processes the next of its lines and counts it.
LineStep(t) ==
    /\ threads.call[t].pc = "loop"
    /\ threads.call[t].raw_lines # <<>>
    /\ lf' = ProcessRawLine(lf, Head(threads.call[t].raw_lines))
    /\ threads' = IF lf'.exc # NoExc THEN Moved(t, "idle", <<>>)
                  ELSE Moved(t, "loop", Tail(threads.call[t].raw_lines))
    /\ UNCHANGED <<file, phase, pre_sync, ran_final, finals, reads, data_obj, process>>

\* Lines 56-59: the thread's call has no line left, runs the final steps and returns.
Final(t) ==
    /\ threads.call[t].pc = "loop"
    /\ threads.call[t].raw_lines = <<>>
    /\ lf' = FinalSteps(lf)
    /\ threads' = Moved(t, "idle", <<>>)
    /\ pre_sync' = lf._extracted_data
    /\ ran_final' = TRUE
    /\ finals' = Min(2, finals + 1)
    /\ UNCHANGED <<file, phase, reads, data_obj, process>>

ThreadLines ==
    { <<"I", "1">>, <<"E", "0", ":", "0", ":", "1">> }

NextThreads ==
    \/ FileAppend(ThreadLines, MaxThreadLines)
    \/ lf_factory("lf1", FALSE)
    \/ \E t \in Threads : Open(t)
    \/ \E t \in Threads : Snapshot(t)
    \/ \E t \in Threads : LineStep(t)
    \/ \E t \in Threads : Final(t)

SpecThreads == Init /\ [][NextThreads]_vars


\* One call of read() at a time, seen line by line: the states between two
\* lines of the loop of _update_line_types are states of the specification.
\* The lines are those of the three "many" line types, a line no line type
\* matches, and a version line that holds its prefix twice.
StepLines ==
    { <<"I", "1">>, <<"E", "0", ":", "0", ":", "1">>, <<"F", "2">>, <<"X">>,
      <<"V", "1", "V", "2">> }

NextSteps ==
    \/ FileAppend(StepLines, MaxStepLines)
    \/ lf_factory("lf1", FALSE)
    \/ Open("a")
    \/ Snapshot("a")
    \/ LineStep("a")
    \/ Final("a")

SpecSteps == Init /\ [][NextSteps]_vars

\* ----------------------------------------------------------- Data objects

\* LastData.__init__
LastData(header, subheaders) ==
    [class |-> "LastData", header |-> header, no_values |-> 0,
     _subheaders |-> subheaders, _value |-> None]

\* AllData.__init__
AllData(header, subheaders) ==
    [class |-> "AllData", header |-> header, no_values |-> 0,
     _subheaders |-> subheaders, _value |-> <<>>,
     _column_to_remove |-> "simulated_duplicate"]

\* A variant of Data_update that does not count the value.
Data_update_uncounted(self, d) ==
    IF self.class = "LastData" THEN [self EXCEPT !._value = d]
    ELSE [self EXCEPT !._value = Append(@, d)]

\* LastData.update overwrites, AllData.update appends.
Data_update(self, d) ==
    IF self.class = "LastData" THEN [self EXCEPT !._value = d, !.no_values = 1]
    ELSE [self EXCEPT !._value = Append(@, d), !.no_values = @ + 1]

\* The cells one value gives a row of a data frame: those of a list, or the
\* value itself.
Cells(v) == IF v[1] = "list" THEN v[2] ELSE <<v>>

\* The number of columns of pd.DataFrame(values): that of the longest row.
Width(values) ==
    IF values = <<>> THEN 0
    ELSE CHOOSE w \in {Len(Cells(values[n])) : n \in 1..Len(values)} :
            \A n \in 1..Len(values) : Len(Cells(values[n])) <= w

\* The labels pandas gives the columns of a frame built from a list.
RangeLabels(w) == [i \in 1..w |-> ToString(i - 1)]

\* A data frame: column labels, rows, and the index, <<>> for the default
\* one or <<name, values>>.
Frame(columns, rows, index) ==
    [kind |-> "frame", columns |-> columns, rows |-> rows, index |-> index]

\* pd.DataFrame(values): a row per value, short rows filled with nan.
DataFrame(values) ==
    Frame(RangeLabels(Width(values)),
          [n \in 1..Len(values) |->
              [i \in 1..Width(values) |->
                  IF i <= Len(Cells(values[n])) THEN Cells(values[n])[i] ELSE NaN]],
          <<>>)

\* DataFrame.empty
Empty(df) == df.rows = <<>> \/ df.columns = <<>>

\* x in a list
InList(x, list) == \E i \in 1..Len(list) : list[i] = x

\* list.remove(x): the list without the first x.
RECURSIVE ListRemove(_, _)
ListRemove(list, x) ==
    IF list = <<>> THEN <<>>
    ELSE IF Head(list) = x THEN Tail(list)
    ELSE <<Head(list)>> \o ListRemove(Tail(list), x)

\* The positions of a row that a set of column positions keeps.
RECURSIVE Pick(_, _, _)
Pick(row, keep, i) ==
    IF i > Len(row) THEN <<>>
    ELSE (IF i \in keep THEN <<row[i]>> ELSE <<>>) \o Pick(row, keep, i + 1)

\* df.drop(label, axis=1): every column of that label goes.
Drop(df, label) ==
    Frame(Pick(df.columns, {i \in 1..Len(df.columns) : df.columns[i] # label}, 1),
          [n \in 1..Len(df.rows) |->
              Pick(df.rows[n], {i \in 1..Len(df.columns) : df.columns[i] # label}, 1)],
          df.index)

\* df.set_axis(labels, axis=1) for as many labels as columns.
SetAxis(df, labels) == Frame(labels, df.rows, df.index)

\* df.rename(columns={df.columns[0]: header})
Rename(df, header) ==
    Frame([i \in 1..Len(df.columns) |->
              IF df.columns[i] = df.columns[1] THEN header ELSE df.columns[i]],
          df.rows, df.index)

IsNull(cell) == cell \in {NaN, NaT, None}

\* df[index_key] = index_df: the values of index_df beside the rows they are
\* aligned with, nan where index_df has no row.
Assign(rows, index_df) ==
    [n \in 1..Len(rows) |->
        Append(rows[n], IF index_df = None THEN None
                        ELSE IF n <= Len(index_df[2]) THEN index_df[2][n]
                        ELSE NaN)]

\* df.dropna()
DropNa(rows) ==
    SelectSeq(rows, LAMBDA row : \A i \in 1..Len(row) : ~IsNull(row[i]))

\* df.drop_duplicates(subset=index_key, keep="last"), the index in the last
\* cell of each row.
RECURSIVE DropDuplicates(_)
DropDuplicates(rows) ==
    IF rows = <<>> THEN <<>>
    ELSE IF \E m \in 2..Len(rows) : rows[m][Len(rows[m])] = rows[1][Len(rows[1])]
    THEN DropDuplicates(Tail(rows))
    ELSE <<Head(rows)>> \o DropDuplicates(Tail(rows))

\* df.set_index(index_key), the index in the last cell of each row.
SetIndex(columns, rows, index_key) ==
    Frame(columns,
          [n \in 1..Len(rows) |-> SubSeq(rows[n], 1, Len(rows[n]) - 1)],
          <<index_key, [n \in 1..Len(rows) |-> rows[n][Len(rows[n])]]>>)

\* Lines 82-87 of AllData.get_value, "made index the index"; index_key is
\* None or Str(name).
MadeIndex(df, index_key, index_df) ==
    IF index_key = None THEN df
    ELSE SetIndex(df.columns, DropDuplicates(DropNa(Assign(df.rows, index_df))),
                  index_key)

\* What a call leaves: the object, what the call returned or raised, and its
\* arguments.
Returned(self, returned, index_key, index_df) ==
    [self |-> self, returned |-> returned, args |-> <<index_key, index_df>>]

RaisedBy(exc) == [kind |-> "exc", exc |-> exc]

\* self._subheaders.remove(self._column_to_remove)
Subheaders_remove(self) ==
    [self EXCEPT !._subheaders = ListRemove(@, self._column_to_remove)]

\* AllData.get_value
AllData_get_value(self, index_key, index_df) ==
    IF Empty(DataFrame(self._value))
    THEN Returned(self, DataFrame(self._value), index_key, index_df)
    ELSE IF self._subheaders = None
    THEN Returned(self,
                  MadeIndex(Rename(DataFrame(self._value), self.header),
                            index_key, index_df),
                  index_key, index_df)
    ELSE IF Len(self._subheaders) # Width(self._value)
    THEN Returned(self, RaisedBy("ValueError"), index_key, index_df)
    ELSE IF InList(self._column_to_remove, self._subheaders)
    THEN Returned(Subheaders_remove(self),
                  MadeIndex(Drop(SetAxis(DataFrame(self._value), self._subheaders),
                                 self._column_to_remove),
                            index_key, index_df),
                  index_key, index_df)
    ELSE Returned(self,
                  MadeIndex(SetAxis(DataFrame(self._value), self._subheaders),
                            index_key, index_df),
                  index_key, index_df)

\* LastData.get_value
LastData_get_value(self, index_key, index_df) ==
    Returned(self, [kind |-> "value", value |-> self._value], index_key, index_df)

\* The names a line type hands its Data object, None for one value per line.
Subheaders ==
    { None, <<"time", "q">>, <<"simulated_duplicate", "mass_error">> }

\* What a parser hands update: a float or nan for one value per line, a list
\* of one or two of them for several.
Scalars == {NaN, Float(1)}

Lists == {List(<<a>>) : a \in Scalars} \cup {List(<<a, b>>) : a, b \in Scalars}

DataValues(self) == IF self._subheaders = None THEN Scalars ELSE Lists

\* The index frames get_value is given.
IndexFrames ==
    {None} \cup {List(<<a>>) : a \in {NaT, TimeDelta(1)}}
           \cup {List(<<a, b>>) : a, b \in {NaT, TimeDelta(1)}}

\* data_factory(data_type, header, subheaders)
data_factory(data_type, header, subheaders) ==
    /\ data_obj.self.class = "none"
    /\ data_obj' = IF data_type = "last"
               THEN [self |-> LastData(header, subheaders), returned |-> NotCalled,
                     args |-> <<>>]
               ELSE IF data_type = "all"
               THEN [self |-> AllData(header, subheaders), returned |-> NotCalled,
                     args |-> <<>>]
               ELSE [self |-> NoData, returned |-> RaisedBy("ValueError"), args |-> <<>>]
    /\ UNCHANGED <<file, phase, lf, pre_sync, ran_final, finals, reads, threads, process>>

\* Data.update(data)
update(d) ==
    /\ data_obj.self.class # "none"
    /\ data_obj.self.no_values < MaxDataValues
    /\ d \in DataValues(data_obj.self)
    /\ data_obj' = [self |-> Data_update(data_obj.self, d), returned |-> NotCalled,
                args |-> <<>>]
    /\ UNCHANGED <<file, phase, lf, pre_sync, ran_final, finals, reads, threads, process>>

\* Data.get_value(index_key, index_df)
get_value(index_key, index_df) ==
    /\ data_obj.self.class # "none"
    /\ data_obj' = IF data_obj.self.class = "LastData"
               THEN LastData_get_value(data_obj.self, index_key, index_df)
               ELSE AllData_get_value(data_obj.self, index_key, index_df)
    /\ UNCHANGED <<file, phase, lf, pre_sync, ran_final, finals, reads, threads, process>>

NextData ==
    \/ \E data_type \in {"last", "all", "x"}, subheaders \in Subheaders :
            data_factory(data_type, "flow", subheaders)
    \/ \E d \in Scalars \cup Lists : update(d)
    \/ \E index_key \in {None, Str("simulated")}, index_df \in IndexFrames :
            get_value(index_key, index_df)

SpecData == Init /\ [][NextData]_vars

\* ------------------------------------------------- sessions of a process

\* TimeFloatMultParser.__init__ for the table entry "mass_error": _nan is
\* built from the names as they are now; the parser and its Data object keep
\* the list of the table itself, not a copy.
TimeFloatMultParser_init(subheaders) ==
    [line_type |-> LineType("mass_error", "TimeFloatMult", <<"M">>, "many", FALSE, FALSE,
                            Str(<<"*", "*">>), subheaders),
     data |-> AllData("mass_error", subheaders)]

\* Every parser built from the table entry holds the one list: what a call
\* does to the list shows in all of them, and in the table.
Aliased(proc, subheaders) ==
    [subheaders |-> subheaders,
     parser |-> [s \in Sessions |->
                    IF proc.parser[s].data.class = "none" THEN proc.parser[s]
                    ELSE [proc.parser[s] EXCEPT !.data._subheaders = subheaders]]]

\* LF._init_line_types of a session, at construction or on a forced re-read:
\* a new parser from the entry of the table.
init_line_types(s) ==
    /\ process' = [process EXCEPT !.parser[s] = TimeFloatMultParser_init(process.subheaders)]
    /\ UNCHANGED <<file, phase, lf, pre_sync, ran_final, finals, reads, threads, data_obj>>

\* Parser.process_line of the session's parser: the parsed value, or _nan
\* for an expected text, goes to the Data object.
process_line(s, raw_line) ==
    /\ process.parser[s].data.class # "none"
    /\ process.parser[s].data.no_values < MaxSessionValues
    /\ process_line_wrapper(process.parser[s].line_type, raw_line).ok
    /\ process' = [process EXCEPT !.parser[s].data =
                      Data_update(@, process_line_wrapper(process.parser[s].line_type,
                                                          raw_line).v)]
    /\ UNCHANGED <<file, phase, lf, pre_sync, ran_final, finals, reads, threads, data_obj>>

\* The session builds its table: get_value of its Data object.
assemble(s) ==
    /\ process.parser[s].data.class # "none"
    /\ process' = Aliased([process EXCEPT !.parser[s].data =
                              AllData_get_value(@, None, None).self],
                          AllData_get_value(process.parser[s].data, None, None).self._subheaders)
    /\ UNCHANGED <<file, phase, lf, pre_sync, ran_final, finals, reads, threads, data_obj>>

SessionLines == { <<"1", " ", "2">>, <<"*", "*">> }

NextProcess ==
    \/ \E s \in Sessions : init_line_types(s)
    \/ \E s \in Sessions, raw_line \in SessionLines : process_line(s, raw_line)
    \/ \E s \in Sessions : assemble(s)

SpecProcess == Init /\ [][NextProcess]_vars

\* ----------------------------------------------------------------- factory

\* The factory: every suffix and flow type a caller may ask for, on a log of
\* progress and marker lines, one of them malformed.
Suffixes == {"lf1", "lf2", ".lf1", "txt"}

NextFactory ==
    \/ FileAppend(ProgressLines, MaxFactoryLines)
    \/ \E suffix \in Suffixes, steady \in BOOLEAN : lf_factory(suffix, steady)
    \/ \E force_reread, suppress_final_steps \in BOOLEAN :
            read(force_reread, suppress_final_steps)

SpecFactory == Init /\ [][NextFactory]_vars

\* ------------------------------------------------- the older reader (lf1.py)

\* LF1._init_data_to_extract: the table, and a new object for each entry.
LF1_init_data_to_extract(self) ==
    _init_line_types([self EXCEPT !._data_to_extract = "lf1_params_data_to_extract"])

\* LF1._sync_cols: once an iteration is counted, one missing value for every
\* run-stage list, the iteration-defining one left out, that has fewer
\* values than iterations are counted.
LF1_sync_cols(self) ==
    IF self._no_iters < 1 THEN self
    ELSE [self EXCEPT !._extracted_data =
            [key \in DOMAIN self._extracted_data |->
                IF /\ DataToExtract(self).item[key].type = "many"
                   /\ ~DataToExtract(self).item[key].index
                   /\ self._extracted_data[key].no_values < self._no_iters
                THEN update_value_wrapper(DataToExtract(self).item[key],
                                          self._extracted_data[key],
                                          _nan(DataToExtract(self).item[key]))
                ELSE self._extracted_data[key]]]

\* Lines 108-110 of lf1.py: the sync, then the iteration is counted.
LF1_EndIteration(self, line_type) ==
    IF line_type.index THEN [LF1_sync_cols(self) EXCEPT !._no_iters = @ + 1] ELSE self

\* Lines 105-110 of lf1.py: the value is stored, unless the parser raised.
LF1_StoreLine(self, line_type, processed_line) ==
    IF ~processed_line.ok
    THEN [self EXCEPT !.exc = Exc(processed_line.exc, "_process_lines")]
    ELSE LF1_EndIteration([self EXCEPT !._extracted_data[line_type.key] =
                                update_value_wrapper(line_type, @, processed_line.v)],
                          line_type)

\* Lines 96-110 of lf1.py: every line type, from the i-th on, tried on one
\* raw line.
RECURSIVE LF1_ProcessLineTypes(_, _, _)
LF1_ProcessLineTypes(self, raw_line, i) ==
    IF i > Len(DataToExtract(self).order) THEN self
    ELSE IF \/ self.exc # NoExc
            \/ ~StartsWith(raw_line, DataToExtract(self).item[DataToExtract(self).order[i]].prefix)
    THEN LF1_ProcessLineTypes(self, raw_line, i + 1)
    ELSE LF1_ProcessLineTypes(
            LF1_StoreLine(self, DataToExtract(self).item[DataToExtract(self).order[i]],
                          process_line_wrapper(
                              DataToExtract(self).item[DataToExtract(self).order[i]],
                              end_of_line(DataToExtract(self).item[DataToExtract(self).order[i]],
                                          raw_line))),
            raw_line, i + 1)

\* Lines 92-113 of lf1.py: every line that has not been read yet.
RECURSIVE LF1_ProcessRawLines(_)
LF1_ProcessRawLines(self) ==
    IF self.exc # NoExc \/ self._no_lines >= Len(self._raw_data) THEN self
    ELSE LF1_ProcessRawLines(
            CountLine(LF1_ProcessLineTypes(self, self._raw_data[self._no_lines + 1], 1)))

\* pd.DataFrame(run) of lf1.py line 152: a column per run-stage list, refused
\* if the lists have different lengths.
LF1_create_dataframe(self) ==
    IF ~SameLength(self) THEN [self EXCEPT !.exc = Exc("ValueError", "_create_dataframe")]
    ELSE [self EXCEPT !.df = [exists |-> TRUE, run |-> RunDict(self)]]

\* Lines 116-118 of lf1.py: the steps at the end of every _process_lines.
LF1_LastSteps(self) ==
    IF self.exc # NoExc THEN self
    ELSE LF1_create_dataframe([LF1_sync_cols(self) EXCEPT !.attrs = TRUE])

LF1_process_lines(self) == LF1_LastSteps(LF1_ProcessRawLines(self))

\* LF1._read(force_reread) on the lines the file holds.
LF1_read(self, lines, force_reread) ==
    LF1_process_lines(
        IF force_reread
        THEN LF1_init_data_to_extract(_init_counters([self EXCEPT !._raw_data = lines,
                                                                  !.exc = NoExc]))
        ELSE [self EXCEPT !._raw_data = lines, !.exc = NoExc])

\* LF1(lf1_filepath): the session is built and reads the file as it is now.
LF1_init ==
    /\ phase = "new"
    /\ lf' = LF1_read(LF1_init_data_to_extract(_init_counters(
                          [Blank EXCEPT !._filetype = "LF1"])),
                      file, FALSE)
    /\ phase' = IF lf'.exc = NoExc THEN "live" ELSE "failed"
    /\ UNCHANGED <<file, pre_sync, ran_final, finals, reads, threads, data_obj, process>>

\* A later call of _read on the session: the file is read again and the
\* lines after the cursor are processed.
LF1_reread(force_reread) ==
    /\ phase = "live"
    /\ lf' = LF1_read(lf, file, force_reread)
    /\ UNCHANGED <<file, phase, pre_sync, ran_final, finals, reads, threads, data_obj,
                   process>>

NextLF1 ==
    \/ FileAppend(SyncLines, MaxLF1Lines)
    \/ LF1_init
    \/ \E force_reread \in BOOLEAN : LF1_reread(force_reread)

SpecLF1 == Init /\ [][NextLF1]_vars


\* What one read of the whole of the lines self has read gives a new session
\* of the same class and mode.
SinglePass(self) ==
    AfterRead(NewSession(self._filetype, self._steady, self._raw_data), FALSE)

\* The lines the session has consumed.
Consumed == SubSeq(lf._raw_data, 1, lf._no_lines)

\* C1: reading a log in two batches A then B, the second read resuming from
\* the cursor, gives the same table as reading A+B in one call: after every
\* read that returned, the table is the table of a single read of the lines
\* read so far.
C1_IdempotentResumption ==
    (phase = "live" /\ ran_final /\ lf.exc = NoExc) => lf.df = SinglePass(lf).df

\* C2: if every read since the session was built or last reset, except the
\* last one, suppressed the final steps, and the last one ran them, then the
\* object (accumulators, cursor, table) is the one a single read of the whole
\* log gives.
C2_ExactResumption ==
    (phase = "live" /\ ran_final /\ finals = 1) => lf = SinglePass(lf)

\* C2: a log read in two non-empty batches, the first with the final steps
\* suppressed, whose last read padded a column.
C2_Witness ==
    /\ phase = "live" /\ ran_final /\ finals = 1 /\ reads = 2
    /\ lf._no_iters >= 1
    /\ lf.df.exists
    /\ pre_sync # lf._extracted_data

\* Positions of lines in lo..hi that the line type matches.
Emissions(lines, line_type, lo, hi) ==
    {i \in lo..hi : StartsWith(lines[i], line_type.prefix)}

\* The marker line type of a table.
Marker(table) == table.item[CHOOSE key \in table.many : table.item[key].index]

\* The position of the last marker line before position m, 0 if none.
LastMarkerBefore(table, lines, m) ==
    LET before == Emissions(lines, Marker(table), 1, m - 1) \cup {0}
    IN  CHOOSE p \in before : \A q \in before : q <= p

\* How many times the line type is emitted after the last marker line.
Pending(table, lines, line_type) ==
    Cardinality(Emissions(lines, line_type,
                          LastMarkerBefore(table, lines, Len(lines) + 1) + 1, Len(lines)))

\* Every "many" line type is emitted exactly once in every iteration: a
\* before_index type once before each marker line (the first included), any
\* other type once after each marker line, except that the lines after the
\* last marker may not hold it yet.
Regular(table, lines) ==
    \A key \in table.many :
        \/ table.item[key].index
        \/ /\ Pending(table, lines, table.item[key]) <= 1
           /\ \A m \in Emissions(lines, Marker(table), 1, Len(lines)) :
                Cardinality(Emissions(lines, table.item[key],
                                      LastMarkerBefore(table, lines, m) + 1, m - 1))
                    = IF table.item[key].before_index \/ LastMarkerBefore(table, lines, m) > 0
                      THEN 1 ELSE 0
           /\ table.item[key].before_index
                \/ Emissions(lines, Marker(table), 1, Len(lines)) # {}
                \/ Pending(table, lines, table.item[key]) = 0

\* The lines end with a whole iteration: nothing of the next one is there
\* and every type that follows the marker has been emitted.
Complete(table, lines) ==
    \A key \in table.many :
        \/ table.item[key].index
        \/ Pending(table, lines, table.item[key])
               = IF table.item[key].before_index \/ LastMarkerBefore(table, lines, Len(lines) + 1) = 0
                 THEN 0 ELSE 1

\* The accumulators as the line processing left them, before any final padding.
Processed == IF ran_final THEN pre_sync ELSE lf._extracted_data

\* The session has run no final steps before those of its last read.
NoEarlierFinalSteps == finals = 0 \/ (finals = 1 /\ ran_final)

\* C4: after processing a stream with N marker lines in which every "many"
\* line type is emitted in every iteration, the marker's column has N values,
\* a before_index column N or N + 1 (the next iteration's value is there or
\* not), any other column N or N - 1 (the last iteration's value is there or
\* not); and when the stream ends with a whole iteration, every column has
\* exactly N.
C4_SyncCorrectness ==
    (phase = "live" /\ NoEarlierFinalSteps /\ Regular(DataToExtract(lf), Consumed)) =>
        \A key \in DataToExtract(lf).many :
            /\ Len(Processed[key].value)
                 = IF DataToExtract(lf).item[key].index THEN lf._no_iters
                   ELSE IF DataToExtract(lf).item[key].before_index
                   THEN lf._no_iters + Pending(DataToExtract(lf), Consumed, DataToExtract(lf).item[key])
                   ELSE IF lf._no_iters = 0 THEN 0
                   ELSE lf._no_iters - 1
                        + Pending(DataToExtract(lf), Consumed, DataToExtract(lf).item[key])
            /\ Len(lf._extracted_data[key].value) \in (lf._no_iters - 1)..(lf._no_iters + 1)
            /\ Complete(DataToExtract(lf), Consumed) =>
                    Len(lf._extracted_data[key].value) = lf._no_iters

\* C4: two iterations read in two batches, the second one whole.
C4_Witness ==
    /\ phase = "live" /\ NoEarlierFinalSteps /\ reads = 2
    /\ Regular(DataToExtract(lf), Consumed)
    /\ lf._no_iters = 2
    /\ Len(Processed["iter"].value) = 2
    /\ Len(Processed["flow"].value) = 1

\* How much shorter than the longest "many" list the key's list was when the
\* final sync started.
Deficit(key) ==
    MaxLength(DataToExtract(lf).many, pre_sync) - Len(pre_sync[key].value)

\* n missing values of the line type.
Nans(line_type, n) == [i \in 1..n |-> _nan(line_type)]

\* C5: the final sync leaves every "many" list that was one or two short of
\* the longest with the longest's length, by appending that line type's
\* missing value once or twice, and leaves the lists of the longest's
\* length as they were.
C5_FinalSyncPadding ==
    ran_final =>
        \A key \in DataToExtract(lf).many :
            /\ Deficit(key) \in {1, 2} =>
                /\ lf._extracted_data[key].value
                     = pre_sync[key].value \o Nans(DataToExtract(lf).item[key], Deficit(key))
                /\ lf._extracted_data[key].no_values
                     = MaxLength(DataToExtract(lf).many, pre_sync)
            /\ Deficit(key) = 0 => lf._extracted_data[key] = pre_sync[key]

\* C5: a final sync that found a list one short and a list two short.
C5_Witness ==
    /\ ran_final
    /\ \E key \in DataToExtract(lf).many : Deficit(key) = 1
    /\ \E key \in DataToExtract(lf).many : Deficit(key) = 2

\* C6: when the final sync finds a "many" list three or more short of the
\* longest, it raises (the read ends with an exception of _final_sync_cols).
C6_AlignmentViolation ==
    (ran_final /\ \E key \in DataToExtract(lf).many : Deficit(key) >= 3) =>
        lf.exc.method = "_final_sync_cols"

\* The "last" line types and the "many" lists as the processing of the lines
\* left them.
Stored(key) == Processed[key].value

\* The first line of the log, and what the line type finds after its prefix.
FirstLine == lf._raw_data[1]

\* The keys of the line types whose prefix the raw line starts with.
Matching(table, raw_line) ==
    {key \in DOMAIN table.item : StartsWith(raw_line, table.item[key].prefix)}

\* The first-declared line type whose prefix the raw line starts with.
FirstMatching(table, raw_line) ==
    table.order[CHOOSE i \in 1..Len(table.order) :
                    /\ table.order[i] \in Matching(table, raw_line)
                    /\ \A j \in 1..(i - 1) : table.order[j] \notin Matching(table, raw_line)]

\* A read has consumed the one line of the log, and the session has run no
\* final steps before those of its last read.
OneLineRead ==
    /\ phase = "live" /\ lf.exc = NoExc /\ NoEarlierFinalSteps
    /\ Len(lf._raw_data) = 1 /\ lf._no_lines = 1

\* C3: a raw line is attributed to at most one line type, the first-declared
\* one whose prefix it starts with: after the read of a one-line log, every
\* other accumulator is as it was built, also when the line starts with two
\* prefixes, one a strict prefix of the other.
C3_PrefixMatchDeterminism ==
    OneLineRead =>
        \A key \in DOMAIN DataToExtract(lf).item :
            \/ Matching(DataToExtract(lf), FirstLine) # {}
                 /\ key = FirstMatching(DataToExtract(lf), FirstLine)
            \/ Processed[key] = NewData(DataToExtract(lf).item[key])

\* The log has one line, and the session is what a read that reached the
\* line left (a forced re-read that fails on the deleters reaches no line).
OneLineLog ==
    /\ phase \in {"live", "failed"}
    /\ Len(lf._raw_data) = 1
    /\ lf.exc.type # "AttributeError"
    /\ NoEarlierFinalSteps

\* The line type matches FirstLine and what follows its prefix is exactly the
\* line type's exclusion string.
Excluded(line_type) ==
    /\ StartsWith(FirstLine, line_type.prefix)
    /\ line_type.exclude # None
    /\ end_of_line(line_type, FirstLine) = line_type.exclude[2]

\* The line type's accumulator holds the missing value as the value of
\* FirstLine, and the read of FirstLine raised nothing.
SentinelStored(line_type) ==
    /\ lf.exc = NoExc
    /\ lf._no_lines = 1
    /\ Stored(line_type.key)
         = IF line_type.type = "many" THEN <<_nan(line_type)>> ELSE _nan(line_type)

\* C7 as stated: for every line type, a line that starts with its prefix and
\* continues with exactly its exclusion string stores the line type's missing
\* value and raises no error.
C7_MissingValueTolerance ==
    OneLineLog =>
        \A key \in DOMAIN DataToExtract(lf).item :
            Excluded(DataToExtract(lf).item[key]) => SentinelStored(DataToExtract(lf).item[key])

\* C7, amended: for every line type whose parser rejects its exclusion string
\* with a conversion error, a line that starts with its prefix and continues
\* with exactly the exclusion string stores the line type's missing value and
\* raises no error.
C7_MissingValueToleranceOfRejected ==
    OneLineLog =>
        \A key \in DOMAIN DataToExtract(lf).item :
            ( /\ Excluded(DataToExtract(lf).item[key])
              /\ _process_line(DataToExtract(lf).item[key],
                               DataToExtract(lf).item[key].exclude[2]) = Raise("ValueError") )
                => SentinelStored(DataToExtract(lf).item[key])

\* C7: a multi-float line whose text is the exclusion string has been read.
C7_Witness ==
    /\ OneLineLog
    /\ Excluded(DataToExtract(lf).item["conv"])
    /\ Stored("conv") = << List(<<NaN, NaN>>) >>

\* The parser of the line type cannot convert what follows the prefix in
\* FirstLine, and that text is not the line type's exclusion string.
Malformed(line_type) ==
    /\ StartsWith(FirstLine, line_type.prefix)
    /\ ~_process_line(line_type, end_of_line(line_type, FirstLine)).ok
    /\ ~Excluded(line_type)

\* C8: the read of a line fails with the conversion error exactly when the
\* text after the prefix of a matching line type cannot be converted and is
\* not in the exclusion set; then nothing is stored for the line and no
\* missing value takes its place.
C8_MalformedNeverMasked ==
    OneLineLog =>
        /\ lf.exc = Exc("ValueError", "_update_line_types")
             <=> \E key \in DOMAIN DataToExtract(lf).item : Malformed(DataToExtract(lf).item[key])
        /\ \A key \in DOMAIN DataToExtract(lf).item :
             Malformed(DataToExtract(lf).item[key])
                => lf._extracted_data[key] = NewData(DataToExtract(lf).item[key])

\* The value the line type reads from the raw line.
ParsedValue(line_type, raw_line) ==
    process_line_wrapper(line_type, end_of_line(line_type, raw_line)).v

\* The position of the last of a non-empty set of positions.
Last(positions) == CHOOSE p \in positions : \A q \in positions : q <= p

\* The positions of the progress lines among the consumed lines.
ProgressRead ==
    Emissions(Consumed, DataToExtract(lf).item["progress"], 1, Len(Consumed))

\* C9: in a session whose table has a progress line type, report_progress
\* returns 0 while no progress line has been consumed since the session
\* started or was last reset by a forced re-read, and otherwise the value
\* read from the last consumed progress line.
C9_ProgressValue ==
    (phase = "live" /\ "progress" \in DOMAIN DataToExtract(lf).item) =>
        report_progress(lf)
            = IF ProgressRead = {} THEN Ok(Float(0))
              ELSE Ok(ParsedValue(DataToExtract(lf).item["progress"],
                                  Consumed[Last(ProgressRead)]))

\* C9: two progress lines with different values, read by two reads.
C9_Witness ==
    /\ phase = "live" /\ reads = 2
    /\ "progress" \in DOMAIN DataToExtract(lf).item
    /\ Cardinality(ProgressRead) >= 2
    /\ report_progress(lf) = Ok(Float(2))
    /\ \E p \in ProgressRead : Consumed[p] = <<"P", "1">>

\* C10: in a steady LF1 session report_progress raises NotImplementedError,
\* whatever lines have been consumed, and returns no number.
C10_ProgressUnsupported ==
    (phase = "live" /\ lf._filetype = "LF1" /\ lf._steady) =>
        report_progress(lf) = Raise("NotImplementedError")

\* C10: a steady session that has consumed a progress line and a marker line.
C10_Witness ==
    /\ phase = "live" /\ lf._filetype = "LF1" /\ lf._steady
    /\ lf._no_iters >= 1
    /\ \E i \in 1..Len(Consumed) : StartsWith(Consumed[i], <<"P">>)

\* Neither counter is smaller after the step than before it.
NoDecrease ==
    /\ lf'._no_lines >= lf._no_lines
    /\ lf'._no_iters >= lf._no_iters

\* C11: _no_lines and _no_iters never decrease in a step that is not a forced
\* re-read: not in a read that resumes, whatever the file has become, and
\* not in a step of the simulation that writes the file.
C11_CursorMonotonicity ==
    [][ \/ NoDecrease
        \/ ~ \/ \E suppress_final_steps \in BOOLEAN : read(FALSE, suppress_final_steps)
             \/ FileAppend(SyncLines, MaxRestartLines)
             \/ Restart
      ]_vars

\* C11: the session has read lines and iterations of a log that has since been
\* written anew and is shorter: a forced re-read would set the counters back.
C11_Witness ==
    /\ phase = "live"
    /\ lf._no_iters >= 1
    /\ lf._no_lines > Len(file)
    /\ lf._raw_data # file

\* The sequence a is the beginning of the sequence b.
IsPrefix(a, b) == Len(a) <= Len(b) /\ SubSeq(b, 1, Len(a)) = a

\* Every "many" list before the step is the beginning of the list after it,
\* and no "last" value that is set before the step is unset after it.
OnlyGrows ==
    \A key \in DOMAIN lf._extracted_data :
        IF DataToExtract(lf).item[key].type = "many"
        THEN IsPrefix(lf._extracted_data[key].value, lf'._extracted_data[key].value)
        ELSE lf._extracted_data[key].value # None => lf'._extracted_data[key].value # None

ResetBy(suppress_final_steps) ==
    (read(TRUE, suppress_final_steps) /\ lf'.exc = NoExc) =>
        lf' = AfterRead(NewSession(lf._filetype, lf._steady, file), suppress_final_steps)

ValuesOf(line_type, lines) ==
    LET emitted == SelectSeq(lines, LAMBDA raw_line : StartsWith(raw_line, line_type.prefix))
    IN  [i \in 1..Len(emitted) |-> ParsedValue(line_type, emitted[i])]

\* The values of a list that are not the line type's missing value.
NonSentinel(line_type, values) ==
    SelectSeq(values, LAMBDA v : v # _nan(line_type))

\* The accumulator holds the values of the lines, each once and in the order
\* of the lines: all of them for "many" (padding left aside), the last one
\* for "last".
AppliedOnce(line_type, data, lines) ==
    IF line_type.type = "many"
    THEN NonSentinel(line_type, data.value) = ValuesOf(line_type, lines)
    ELSE data.value = IF ValuesOf(line_type, lines) = <<>> THEN None
                      ELSE ValuesOf(line_type, lines)[Len(ValuesOf(line_type, lines))]

\* C14: on a file that only grows, after every read that returns the cursor
\* equals the number of lines the file had at that read, the iteration count
\* the number of marker lines, and every accumulator holds the values of its
\* lines once each and in file order, however the lines were split over reads.
C14_ExactlyOnce ==
    (phase = "live" /\ lf.exc = NoExc) =>
        /\ lf._no_lines = Len(lf._raw_data)
        /\ lf._no_iters = Len(ValuesOf(Marker(DataToExtract(lf)), lf._raw_data))
        /\ \A key \in DOMAIN lf._extracted_data :
                AppliedOnce(DataToExtract(lf).item[key], lf._extracted_data[key], lf._raw_data)

\* C14: three or more lines, read by two reads, with two different values of
\* one line type.
C14_Witness ==
    /\ phase = "live" /\ lf.exc = NoExc /\ reads = 2
    /\ lf._no_lines >= 3
    /\ NonSentinel(DataToExtract(lf).item["iter"], lf._extracted_data["iter"].value)
         = << Float(2), Float(1) >>

\* The lines "ITER: 1", "ELAPSED: 00:00:01", "ITER: 2", "ELAPSED: 00:00:02",
\* with the prefixes the table gives to iter and elapsed.
ScenarioLines ==
    << <<"I", " ", "1">>, <<"E", " ", "0", "0", ":", "0", "0", ":", "0", "1">>,
       <<"I", " ", "2">>, <<"E", " ", "0", "0", ":", "0", "0", ":", "0", "2">> >>

\* The session has read the scenario's lines and built the table, with no
\* final steps before those of its last read.
ScenarioRead ==
    /\ phase = "live"
    /\ lf._raw_data = ScenarioLines
    /\ ran_final /\ NoEarlierFinalSteps

\* C15: reading the four lines of the scenario gives a table of exactly two
\* rows with iter = [1.0, 2.0] and elapsed = [1 second, 2 seconds], no missing
\* value in either column.
C15_EndToEndScenario ==
    ScenarioRead =>
        /\ lf.exc = NoExc
        /\ lf.df.exists
        /\ lf.df.run["iter"] = << Float(1), Float(2) >>
        /\ lf.df.run["elapsed"] = << TimeDelta(1), TimeDelta(2) >>
        /\ \A name \in DOMAIN lf.df.run : Len(lf.df.run[name]) = 2

\* C15: the scenario's lines have been read, by one read or by several.
C15_Witness ==
    /\ ScenarioRead
    /\ lf._no_lines = 4
    /\ lf._no_iters = 2
    /\ lf.df.exists

\* C16: every table the session holds has columns of one length; the table a
\* read builds holds each accumulated list in full, nothing cut and nothing
\* added; and final steps that find lists of different lengths end with the
\* error of _create_dataframe instead of building a table.
C16_EqualLengthTable ==
    /\ lf.df.exists =>
            \A a, b \in DOMAIN lf.df.run : Len(lf.df.run[a]) = Len(lf.df.run[b])
    /\ (ran_final /\ lf.exc = NoExc) => (lf.df.exists /\ lf.df.run = RunDict(lf))
    /\ (ran_final /\ ~SameLength(lf)) => lf.exc = Exc("ValueError", "_create_dataframe")

\* C16: the final steps of a read found lists of different lengths and the
\* session still holds the table of an earlier read.
C16_Witness ==
    /\ phase = "live" /\ ran_final
    /\ ~SameLength(lf)
    /\ lf.df.exists
    /\ lf.df.run # RunDict(lf)

\* The values of a occur in b in the same order (other values may lie between).
RECURSIVE IsSubsequence(_, _)
IsSubsequence(a, b) ==
    IF a = <<>> THEN TRUE
    ELSE IF b = <<>> THEN FALSE
    ELSE IF Head(a) = Head(b) THEN IsSubsequence(Tail(a), Tail(b))
    ELSE IsSubsequence(a, Tail(b))

\* The values of the list that are not missing values are in the order of
\* the log lines they were read from.
InEmissionOrder(line_type, values) ==
    IsSubsequence(NonSentinel(line_type, values), ValuesOf(line_type, lf._raw_data))

\* C17: in every state the values of each "many" list that are not missing
\* values are in the order of the log lines they were read from, and so are
\* those of each column of the table.
C17_EmissionOrder ==
    /\ \A key \in DOMAIN lf._extracted_data :
            DataToExtract(lf).item[key].type = "many" =>
                InEmissionOrder(DataToExtract(lf).item[key], lf._extracted_data[key].value)
    /\ lf.df.exists =>
            \A name \in DOMAIN lf.df.run :
                DataToExtract(lf).columns[name].position = 0 =>
                    InEmissionOrder(DataToExtract(lf).item[DataToExtract(lf).columns[name].key],
                                    lf.df.run[name])

\* C17: a table with a column that holds two different values and a missing
\* value, built after two reads.
C17_Witness ==
    /\ phase = "live" /\ reads = 2 /\ lf.df.exists
    /\ NonSentinel(DataToExtract(lf).item["iter"], lf.df.run["iter"]) = << Float(1), Float(2) >>
    /\ Len(lf.df.run["iter"]) >= 3

\* No call of read is in progress.
AllIdle == \A t \in Threads : threads.call[t].pc = "idle"

\* C18, serialized: as long as no two calls of read have been in progress at
\* the same time, after every call the cursor equals the number of lines of
\* the file and every line has been applied once.
C18_SerializedReads ==
    (phase = "live" /\ AllIdle /\ ~threads.overlapped /\ lf.exc = NoExc) =>
        /\ lf._no_lines = Len(lf._raw_data)
        /\ \A key \in DOMAIN lf._extracted_data :
                AppliedOnce(DataToExtract(lf).item[key], lf._extracted_data[key], lf._raw_data)

\* C18, interleaved: two calls of read that were in progress at the same time
\* have both returned, a line has been applied twice and the cursor is past
\* the end of the file.
C18_Witness ==
    /\ phase = "live" /\ AllIdle /\ threads.overlapped
    /\ lf._raw_data = file
    /\ lf._no_lines > Len(file)
    /\ \E key \in DataToExtract(lf).many :
            Len(NonSentinel(DataToExtract(lf).item[key], lf._extracted_data[key].value))
                > Len(ValuesOf(DataToExtract(lf).item[key], file))

\* The "many" line types of one value per line, and those of several.
SingleValued(self) ==
    {key \in DOMAIN DataToExtract(self).item :
        /\ DataToExtract(self).item[key].type = "many"
        /\ DataToExtract(self).item[key].class # "TimeFloatMult"}

MultiFloat(self) ==
    {key \in DOMAIN DataToExtract(self).item :
        /\ DataToExtract(self).item[key].type = "many"
        /\ DataToExtract(self).item[key].class = "TimeFloatMult"}

\* The names of the sub-values of the line types of several values per line.
SubValueNames(self) ==
    UNION { {DataToExtract(self).item[key].names[i] :
                i \in 1..Len(DataToExtract(self).item[key].names)} :
            key \in MultiFloat(self) }

\* C19: the table a read has just built has one column per "many" line type
\* of one value per line, under the name of the line type, and one column per
\* sub-value name of each "many" line type of several values per line, and no
\* other column: a line type of type "last" gives none.  The column of a line
\* type is its accumulated list in full, padding included; the column of the
\* i-th sub-value name holds the i-th entry of every item of the list.
C19_TableColumns ==
    (phase = "live" /\ ran_final /\ lf.exc = NoExc) =>
        /\ lf.df.exists
        /\ DOMAIN lf.df.run = SingleValued(lf) \cup SubValueNames(lf)
        /\ \A key \in DOMAIN DataToExtract(lf).item :
                DataToExtract(lf).item[key].type = "last" => key \notin DOMAIN lf.df.run
        /\ \A key \in SingleValued(lf) :
                lf.df.run[key] = lf._extracted_data[key].value
        /\ \A key \in MultiFloat(lf) :
                \A i \in 1..Len(DataToExtract(lf).item[key].names) :
                    LET column == lf.df.run[DataToExtract(lf).item[key].names[i]]
                    IN  /\ Len(column) = Len(lf._extracted_data[key].value)
                        /\ \A n \in 1..Len(column) :
                                column[n] = lf._extracted_data[key].value[n][2][i]

\* C19: the table built from an LF2 log of one line of two values, 1 hour and
\* 2: a column per sub-value name, and the padded columns of the one-value
\* line types beside them.
C19_Witness ==
    /\ phase = "live" /\ ran_final /\ lf.exc = NoExc
    /\ lf.df.exists
    /\ MultiFloat(lf) # {}
    /\ \E key \in MultiFloat(lf) :
            /\ lf._extracted_data[key].value = <<List(<<TimeDelta(3600), Float(2)>>)>>
            /\ lf.df.run[DataToExtract(lf).item[key].names[1]] = <<TimeDelta(3600)>>
            /\ lf.df.run[DataToExtract(lf).item[key].names[2]] = <<Float(2)>>
    /\ \E key \in SingleValued(lf) :
            lf.df.run[key] = <<lf._extracted_data[key].value[1]>>

\* The step is a call of get_value.
IsGetValue ==
    \E index_key \in {None, Str("simulated")}, index_df \in IndexFrames :
        get_value(index_key, index_df)

\* C20: building the table is a pure projection: a call of get_value leaves
\* the Data object as it was, values, count and list of sub-value names; and a
\* call that follows a call of the same arguments that returned a table, with
\* no update between the two, returns an equal table.
C20_PureProjection ==
    [][ IsGetValue =>
            /\ data_obj'.self = data_obj.self
            /\ (data_obj.returned.kind = "frame" /\ data_obj'.args = data_obj.args)
                    => data_obj'.returned = data_obj.returned ]_vars

\* The step is one of session s: it builds its parser, processes a line or
\* builds its table.
StepOf(s) ==
    \/ init_line_types(s)
    \/ \E raw_line \in SessionLines : process_line(s, raw_line)
    \/ assemble(s)

\* C21: sessions are isolated: a session that builds its parser, at its
\* construction or on a forced re-read, starts with an empty accumulator and
\* the sub-value names of the table, whatever the sessions made earlier have
\* done; and no step of a session changes the accumulator or the sub-value
\* names of another session, or the names in the table.
C21_SessionIsolation ==
    [][ \A s \in Sessions :
            /\ init_line_types(s) =>
                    process'.parser[s] = TimeFloatMultParser_init(lf_params_subheaders)
            /\ StepOf(s) =>
                    /\ process'.subheaders = process.subheaders
                    /\ \A u \in Sessions \ {s} : process'.parser[u] = process.parser[u] ]_vars

\* The line the call in progress processes next.
NextLine == Head(threads.call["a"].raw_lines)

\* The step processes a line of the marker line type and raises nothing.
MarkerStep ==
    /\ LineStep("a")
    /\ StartsWith(NextLine, Marker(DataToExtract(lf)).prefix)
    /\ lf'.exc = NoExc

\* The count the sync of the step asks of the line type: the iterations
\* counted when the sync runs, and one more for a before_index type.
Threshold(key) ==
    lf._no_iters + (IF DataToExtract(lf).item[key].before_index THEN 1 ELSE 0)

\* How many values the line type lacks when the step starts.
Missing(key) ==
    IF lf._extracted_data[key].no_values < Threshold(key)
    THEN Threshold(key) - lf._extracted_data[key].no_values
    ELSE 0

\* The "many" line types other than the marker.
Synced == {key \in DataToExtract(lf).many : ~DataToExtract(lf).item[key].index}

\* C22: when the line of a marker has been processed, and before the next
\* line is, every other "many" line type has at least as many values as
\* iterations were counted when the sync ran, one more for a before_index
\* type; its list is the list it had, followed by as many missing values as
\* it lacked.
C22_SyncThreshold ==
    [][ MarkerStep =>
            \A key \in Synced :
                /\ lf'._extracted_data[key].no_values >= Threshold(key)
                /\ lf'._extracted_data[key].no_values = Len(lf'._extracted_data[key].value)
                /\ lf'._extracted_data[key].value
                        = lf._extracted_data[key].value
                            \o Nans(DataToExtract(lf).item[key], Missing(key)) ]_vars

\* C22: a call is between two lines, the line it has just processed is the
\* second marker line of a log without any other line, and the sync of each
\* marker padded the lists of the other line types.
C22_Witness ==
    /\ phase = "live" /\ lf.exc = NoExc
    /\ threads.call["a"].pc = "loop"
    /\ lf._no_lines = 2 /\ lf._no_iters = 2
    /\ StartsWith(lf._raw_data[2], Marker(DataToExtract(lf)).prefix)
    /\ lf._extracted_data["iter"].value = <<NaN, NaN>>
    /\ lf._extracted_data["flow"].value = <<NaN>>

\* The keys of the "last" line types.
LastKeys ==
    {key \in DOMAIN DataToExtract(lf).item : DataToExtract(lf).item[key].type = "last"}

\* b is a followed by missing values of the line type, one at least.
Padded(line_type, a, b) ==
    /\ Len(b) > Len(a)
    /\ b = a \o Nans(line_type, Len(b) - Len(a))

\* C23: the step that processes a marker line changes nothing but this: the
\* marker's list gets the one value of the line, the two counters go up by
\* one, and every other "many" line type that has fewer values than the
\* sync asks for gets missing values of its own kind at the end of its list.
\* The "last" line types, the "many" line types that have the count the sync
\* asks for, and the rest of the object are as before the step.
C23_SyncFrame ==
    [][ MarkerStep =>
            /\ lf' = [lf EXCEPT !._extracted_data = lf'._extracted_data,
                                !._no_lines = lf._no_lines + 1,
                                !._no_iters = lf._no_iters + 1]
            /\ DOMAIN lf'._extracted_data = DOMAIN lf._extracted_data
            /\ \A key \in LastKeys : lf'._extracted_data[key] = lf._extracted_data[key]
            /\ \A key \in DataToExtract(lf).many \ Synced :
                    /\ Len(lf'._extracted_data[key].value)
                            = Len(lf._extracted_data[key].value) + 1
                    /\ SubSeq(lf'._extracted_data[key].value, 1,
                              Len(lf._extracted_data[key].value))
                            = lf._extracted_data[key].value
            /\ \A key \in Synced :
                    IF lf._extracted_data[key].no_values >= Threshold(key)
                    THEN lf'._extracted_data[key] = lf._extracted_data[key]
                    ELSE Padded(DataToExtract(lf).item[key],
                                lf._extracted_data[key].value,
                                lf'._extracted_data[key].value) ]_vars

\* C23: a call has just processed the second marker line of a log that holds
\* a flow line between the two: the sync of the step padded the list of iter
\* and left the list of flow, which had its value, as it was.
C23_Witness ==
    /\ phase = "live" /\ lf.exc = NoExc
    /\ threads.call["a"].pc = "loop"
    /\ lf._no_lines = 3 /\ lf._no_iters = 2
    /\ StartsWith(lf._raw_data[3], Marker(DataToExtract(lf)).prefix)
    /\ lf._extracted_data["iter"].value = <<NaN, NaN>>
    /\ lf._extracted_data["flow"].value = <<Float(2)>>

\* The marker lines among the lines the session has consumed.
MarkersConsumed ==
    Emissions(lf._raw_data, Marker(DataToExtract(lf)), 1, lf._no_lines)

\* C24: the iteration counter is the number of marker lines among the lines
\* consumed; a step that processes a line adds one to it if the line is a
\* marker line and nothing otherwise; and when the step of a marker line is
\* over, before any later line is looked at, its sync has been done: no other
\* "many" line type has fewer values than the sync asks for.
C24_IterationCounting ==
    /\ []((phase = "live" /\ lf.exc = NoExc) =>
                lf._no_iters = Cardinality(MarkersConsumed))
    /\ [][ (LineStep("a") /\ lf'.exc = NoExc) =>
                /\ lf'._no_iters
                        = lf._no_iters
                            + (IF StartsWith(NextLine, Marker(DataToExtract(lf)).prefix)
                               THEN 1 ELSE 0)
                /\ StartsWith(NextLine, Marker(DataToExtract(lf)).prefix) =>
                        \A key \in Synced :
                            lf'._extracted_data[key].no_values >= Threshold(key) ]_vars

\* C24: a call is between two lines after three lines, two of them marker
\* lines and one that is not.
C24_Witness ==
    /\ phase = "live" /\ lf.exc = NoExc
    /\ threads.call["a"].pc = "loop"
    /\ lf._no_lines = 3 /\ lf._no_iters = 2
    /\ Cardinality(MarkersConsumed) = 2

\* No line type of the session's table has a prefix the line starts with.
Unmatched(raw_line) ==
    \A key \in DOMAIN DataToExtract(lf).item :
        ~StartsWith(raw_line, DataToExtract(lf).item[key].prefix)

\* C25: the step that processes a line no line type matches changes one
\* thing only, the count of lines read, which goes up by one: every
\* accumulator, the iteration counter and the rest of the object are as
\* before (no sync has padded anything).
C25_UnmatchedLines ==
    [][ (LineStep("a") /\ Unmatched(NextLine)) =>
            lf' = [lf EXCEPT !._no_lines = lf._no_lines + 1] ]_vars

\* C25: a call is between two lines; the line it has just processed, the
\* second of the log, is one no line type matches, and the first one left a
\* value in a list.
C25_Witness ==
    /\ phase = "live" /\ lf.exc = NoExc
    /\ threads.call["a"].pc = "loop"
    /\ lf._no_lines = 2
    /\ Unmatched(lf._raw_data[2])
    /\ lf._extracted_data["iter"].value = <<Float(1)>>

\* The whole of the line after its leading prefix, without the leading
\* whitespace.
Rest(raw_line, prefix) == LStrip(SubSeq(raw_line, Len(prefix) + 1, Len(raw_line)))

\* The value the step has put in the accumulator of the key: the last of
\* the list of a "many" line type, the value of a "last" one.
Put(key) ==
    IF DataToExtract(lf).item[key].type = "many"
    THEN lf'._extracted_data[key].value[Len(lf'._extracted_data[key].value)]
    ELSE lf'._extracted_data[key].value

\* C26: for every line that starts with the prefix of a line type, the step
\* that processes the line stores what the parser of the line type makes of
\* the whole of the line after the prefix, leading whitespace removed.
C26_PrefixStripping ==
    [][ LineStep("a") =>
            \A key \in DOMAIN DataToExtract(lf).item :
                (/\ StartsWith(NextLine, DataToExtract(lf).item[key].prefix)
                 /\ lf'.exc = NoExc
                 /\ process_line_wrapper(DataToExtract(lf).item[key],
                                         Rest(NextLine, DataToExtract(lf).item[key].prefix)).ok)
                    => Put(key)
                         = process_line_wrapper(
                               DataToExtract(lf).item[key],
                               Rest(NextLine, DataToExtract(lf).item[key].prefix)).v ]_vars

\* Every "many" line type other than the marker is emitted at most once in
\* every iteration: a before_index type at most once before each marker line
\* and after the last one, any other type at most once after each marker
\* line and never before the first.
AtMostOnce(table, lines) ==
    \A key \in table.many :
        \/ table.item[key].index
        \/ \A m \in Emissions(lines, Marker(table), 1, Len(lines)) \cup {Len(lines) + 1} :
                Cardinality(Emissions(lines, table.item[key],
                                      LastMarkerBefore(table, lines, m) + 1, m - 1))
                    <= IF table.item[key].before_index \/ LastMarkerBefore(table, lines, m) > 0
                       THEN 1 ELSE 0

\* C27: when every "many" line type is emitted at most once per iteration,
\* one read with the final steps of the log, whatever line the log stops at,
\* leaves all the "many" lists, the marker's too, with one length, which is
\* the iteration count N or N + 1, and builds the table without an error.
C27_AlignmentAfterOnePass ==
    (/\ phase = "live"
     /\ ran_final /\ finals = 1
     /\ AtMostOnce(DataToExtract(lf), Consumed)) =>
        /\ lf.exc = NoExc
        /\ \A key \in DataToExtract(lf).many :
                /\ Len(lf._extracted_data[key].value)
                        = Len(lf._extracted_data[Marker(DataToExtract(lf)).key].value)
                /\ Len(lf._extracted_data[key].value) \in {lf._no_iters, lf._no_iters + 1}
        /\ lf.df.exists

\* C27: a log of two marker lines and an iter line after them, so that both
\* iterations lack their iter and flow lines: the final sync found flow two
\* short and elapsed one short, and every list has three values.
C27_Witness ==
    /\ phase = "live" /\ lf.exc = NoExc
    /\ ran_final /\ finals = 1
    /\ AtMostOnce(DataToExtract(lf), Consumed)
    /\ lf._no_iters = 2
    /\ Deficit("flow") = 2 /\ Deficit("elapsed") = 1
    /\ \A key \in DataToExtract(lf).many : Len(lf._extracted_data[key].value) = 3

\* The position of the j-th marker line of the lines; one past the last line
\* if the lines have fewer than j marker lines.
NthMarker(table, lines, j) ==
    IF j <= Cardinality(Emissions(lines, Marker(table), 1, Len(lines)))
    THEN CHOOSE p \in Emissions(lines, Marker(table), 1, Len(lines)) :
            Cardinality(Emissions(lines, Marker(table), 1, p)) = j
    ELSE Len(lines) + 1

\* The positions of the lines the line type emits in iteration j: the j-th
\* marker line for the marker, the lines between the marker lines j - 1 and j
\* for a before_index type, and the lines between the marker lines j and
\* j + 1 (or the end of the lines) for any other type.
EmittedIn(table, lines, line_type, j) ==
    IF line_type.index THEN {NthMarker(table, lines, j)}
    ELSE IF line_type.before_index
    THEN Emissions(lines, line_type,
                   LastMarkerBefore(table, lines, NthMarker(table, lines, j)) + 1,
                   NthMarker(table, lines, j) - 1)
    ELSE Emissions(lines, line_type,
                   NthMarker(table, lines, j) + 1,
                   NthMarker(table, lines, j + 1) - 1)

\* The value the line type emitted in iteration j, its missing value if it
\* emitted none.
RowValue(table, lines, line_type, j) ==
    IF EmittedIn(table, lines, line_type, j) = {} THEN _nan(line_type)
    ELSE ParsedValue(line_type, lines[Last(EmittedIn(table, lines, line_type, j))])

\* C28: when every "many" line type is emitted at most once per iteration,
\* after one read with the final steps of the log, for every iteration j the
\* session has counted and every "many" line type, the j-th value of the line
\* type's list is the value the line type emitted in iteration j, or its
\* missing value if it emitted none: a line left out of one iteration does
\* not move the values of later iterations up.
C28_RowAlignment ==
    (/\ phase = "live"
     /\ ran_final /\ finals = 1
     /\ AtMostOnce(DataToExtract(lf), Consumed)) =>
        \A key \in DataToExtract(lf).many :
            \A j \in 1..lf._no_iters :
                /\ j <= Len(lf._extracted_data[key].value)
                /\ lf._extracted_data[key].value[j]
                        = RowValue(DataToExtract(lf), Consumed,
                                   DataToExtract(lf).item[key], j)

\* C28: a log of two marker lines and then a flow line, read once: the first
\* iteration has no flow line and the second has one, and the flow value is
\* in the second row, after a missing value in the first.
C28_Witness ==
    /\ phase = "live" /\ lf.exc = NoExc
    /\ ran_final /\ finals = 1
    /\ AtMostOnce(DataToExtract(lf), Consumed)
    /\ lf._no_iters = 2
    /\ EmittedIn(DataToExtract(lf), Consumed, DataToExtract(lf).item["flow"], 1) = {}
    /\ EmittedIn(DataToExtract(lf), Consumed, DataToExtract(lf).item["flow"], 2) # {}
    /\ lf._extracted_data["flow"].value = <<NaN, Float(2)>>
    /\ lf._extracted_data["iter"].value = <<NaN, NaN>>

\* The lines of the file the session has not consumed.
NewLines == SubSeq(file, lf._no_lines + 1, Len(file))

\* C29: a read that suppresses the final steps and forces no re-read leaves
\* the table as it was, whatever the lines it reads; and if it raises nothing
\* it consumes every new line and leaves the accumulators as the processing
\* of the new lines, with its syncs at the marker lines, leaves them: when no
\* new line is a marker line, each "many" list is the list it was followed by
\* the values of its new lines, with no missing value added.
C29_SuppressedFinalSteps ==
    [][ read(FALSE, TRUE) =>
            /\ lf'.df = lf.df
            /\ lf'.attrs = lf.attrs
            /\ lf'.exc = NoExc =>
                /\ lf'._no_lines = Len(file)
                /\ lf'._extracted_data
                        = _update_line_types([lf EXCEPT !._raw_data = file,
                                                        !.exc = NoExc])._extracted_data
                /\ Emissions(NewLines, Marker(DataToExtract(lf)), 1, Len(NewLines)) = {}
                        => \A key \in DataToExtract(lf).many :
                                lf'._extracted_data[key].value
                                    = lf._extracted_data[key].value
                                        \o ValuesOf(DataToExtract(lf).item[key], NewLines)
      ]_vars

\* C29: the session was built on an empty log and then read two marker lines
\* with the final steps suppressed: the table still has no row, the elapsed
\* list has two values, and the flow list has the one missing value of the
\* sync at the second marker line, one short of the elapsed list, without
\* the second one a final sync would append.
C29_Witness ==
    /\ phase = "live" /\ lf.exc = NoExc
    /\ ~ran_final /\ finals = 1
    /\ lf.df.exists
    /\ lf.df.run["elapsed"] = <<>>
    /\ lf._no_lines = 2 /\ lf._no_iters = 2
    /\ Len(lf._extracted_data["elapsed"].value) = 2
    /\ lf._extracted_data["flow"].value = <<NaN>>

\* C30: a read with the final steps and without a forced re-read that finds
\* no new line, made right after a read that ran the final steps, leaves the
\* object as it was: every accumulator, the cursor, the iteration count and
\* the table; and after every read that ran the final steps, one more final
\* sync changes no accumulator.
C30_PollingNoOp ==
    /\ [](ran_final => _final_sync_cols(lf)._extracted_data = lf._extracted_data)
    /\ [][ (/\ read(FALSE, FALSE)
            /\ ran_final
            /\ lf._no_lines = Len(file)) =>
                /\ lf'._extracted_data = lf._extracted_data
                /\ lf'._no_lines = lf._no_lines
                /\ lf'._no_iters = lf._no_iters
                /\ lf'.df = lf.df
                /\ lf' = lf
          ]_vars

\* C30: the log is one marker line; a read with the final steps padded the
\* iter and flow lists, and the last read, also with the final steps, found
\* no new line and its final sync found nothing to pad.
C30_Witness ==
    /\ phase = "live" /\ lf.exc = NoExc
    /\ ran_final /\ finals = 2
    /\ Len(file) = 1 /\ lf._no_lines = 1 /\ lf._no_iters = 1
    /\ pre_sync = lf._extracted_data
    /\ lf._extracted_data["flow"].value = <<NaN>>
    /\ lf.df.run["flow"] = <<NaN>>

\* The parser of some line type the raw line starts with the prefix of cannot
\* convert what follows the prefix.
Offending(table, raw_line) ==
    \E key \in DOMAIN table.item :
        /\ StartsWith(raw_line, table.item[key].prefix)
        /\ ~_process_line(table.item[key], end_of_line(table.item[key], raw_line)).ok

\* The read raised while it processed a line.
Aborted(self) == self.exc # NoExc /\ self.exc.method = "_update_line_types"

\* C31: when a read, forced or not, with or without the final steps, raises
\* on a line whose value cannot be converted, the cursor is the number of
\* lines before that line, that line is the next one of the file, and the
\* accumulators and the iteration count are those the same read leaves,
\* without raising, on the file cut off before that line: the earlier lines
\* are applied and nothing of that line or of a later one is stored.  The
\* final steps are not run and the table is the one the read found.
C31_StateAfterAbortedRead ==
    [][ \A force_reread, suppress_final_steps \in BOOLEAN :
            (read(force_reread, suppress_final_steps) /\ Aborted(lf')) =>
                /\ lf'._no_lines < Len(file)
                /\ Offending(DataToExtract(lf), file[lf'._no_lines + 1])
                /\ BeforeFinalSteps(lf, SubSeq(file, 1, lf'._no_lines), force_reread).exc
                        = NoExc
                /\ lf'._extracted_data
                        = BeforeFinalSteps(lf, SubSeq(file, 1, lf'._no_lines),
                                           force_reread)._extracted_data
                /\ lf'._no_iters
                        = BeforeFinalSteps(lf, SubSeq(file, 1, lf'._no_lines),
                                           force_reread)._no_iters
                /\ ~ran_final'
                /\ lf'.df = IF force_reread THEN NoDataFrame ELSE lf.df
      ]_vars

\* C31: a session built on an empty log reads a log of a progress line, a
\* marker line and a progress line that is not a number: the read raised at
\* the third line, the cursor is 2, and the first two lines are applied.
C31_Witness ==
    /\ phase = "live"
    /\ lf.exc = Exc("ValueError", "_update_line_types")
    /\ lf._raw_data = << <<"P", "1">>, <<"E", "0", ":", "0", ":", "1">>, <<"P", "x">> >>
    /\ lf._no_lines = 2 /\ lf._no_iters = 1
    /\ lf._extracted_data["progress"].value = Float(1)
    /\ Len(lf._extracted_data["elapsed"].value) = 1

\* C32: in every state a session reaches by reads of a log whose lines all
\* convert, whatever the flags of those reads, a forced re-read, with or
\* without the final steps, raises no AttributeError.
C32_ForceRereadAvailable ==
    [][ \A suppress_final_steps \in BOOLEAN :
            read(TRUE, suppress_final_steps) => lf'.exc.type # "AttributeError"
      ]_vars

\* The session lf_factory built is of the class and the flow type given, with
\* the table and the progress method its _init_params_and_progress binds.
Built(self, filetype, steady, data_to_extract, progress) ==
    /\ self.exc.method # "lf_factory"
    /\ self._filetype = filetype
    /\ self._steady = steady
    /\ self._data_to_extract = data_to_extract
    /\ self.report_progress = progress

\* C33: lf_factory builds an unsteady LF1 session for "lf1" with steady False,
\* a steady LF1 session for "lf1" with steady True and an LF2 session for
\* "lf2" with steady True, and returns it when no line of the log is one a
\* parser cannot convert; for every other suffix and flow type, "lf2" with
\* steady False included, it raises ValueError and builds no session.
C33_FactoryDispatch ==
    [][ \A suffix \in Suffixes, steady \in BOOLEAN :
            lf_factory(suffix, steady) =>
                /\ (suffix = "lf1" /\ ~steady) =>
                        Built(lf', "LF1", FALSE, "lf1_unsteady_data_to_extract",
                              "_report_progress")
                /\ (suffix = "lf1" /\ steady) =>
                        Built(lf', "LF1", TRUE, "lf1_steady_data_to_extract",
                              "_no_report_progress")
                /\ (suffix = "lf2" /\ steady) =>
                        Built(lf', "LF2", FALSE, "lf2_data_to_extract", "_report_progress")
                /\ (suffix = "lf1" \/ (suffix = "lf2" /\ steady)) =>
                        /\ (\A i \in 1..Len(file) : ~Offending(DataToExtract(lf'), file[i]))
                                => phase' = "live"
                        /\ phase' = "live" => lf'._no_lines = Len(file) /\ lf'.df.exists
                /\ ~(suffix = "lf1" \/ (suffix = "lf2" /\ steady)) =>
                        /\ phase' = "failed"
                        /\ lf' = [Blank EXCEPT !.exc = Exc("ValueError", "lf_factory")]
      ]_vars

\* C33: an LF2 session that lf_factory built on a log of a progress line and
\* a marker line and returned.
C33_Witness ==
    /\ phase = "live"
    /\ lf._filetype = "LF2" /\ lf._data_to_extract = "lf2_data_to_extract"
    /\ lf._no_lines = 2 /\ lf._no_iters = 1
    /\ lf.df.exists

\* C33: lf_factory raised ValueError for a suffix and flow type it does not
\* know, on a log of two lines, and built nothing.
C33_WitnessRejected ==
    /\ phase = "failed"
    /\ Len(file) = 2
    /\ lf = [Blank EXCEPT !.exc = Exc("ValueError", "lf_factory")]

\* The text the line type finds after its prefix in FirstLine splits on ":"
\* into exactly three parts that int() accepts.
ThreeIntegerParts(line_type) ==
    /\ Len(Split(end_of_line(line_type, FirstLine), <<":">>)) = 3
    /\ \A i \in 1..3 : IsNumber(Split(end_of_line(line_type, FirstLine), <<":">>)[i])

\* H * 3600 + M * 60 + S for the text H:M:S the line type finds in FirstLine.
SecondsOf(line_type) ==
    3600 * NumberValue(Split(end_of_line(line_type, FirstLine), <<":">>)[1])
    + 60 * NumberValue(Split(end_of_line(line_type, FirstLine), <<":">>)[2])
    + NumberValue(Split(end_of_line(line_type, FirstLine), <<":">>)[3])

\* C34: a line of a duration-HMS line type whose text is H:M:S with integer
\* parts stores the duration of H * 3600 + M * 60 + S seconds; a line whose
\* text does not split on ":" into exactly three integer parts stores the
\* missing value if the text is the line type's exclusion string and fails
\* the read, storing nothing, otherwise.
C34_DurationHMSParsing ==
    OneLineLog =>
        \A key \in DOMAIN DataToExtract(lf).item :
            ( /\ DataToExtract(lf).item[key].class = "TimeDeltaHMS"
              /\ StartsWith(FirstLine, DataToExtract(lf).item[key].prefix) ) =>
                IF ThreeIntegerParts(DataToExtract(lf).item[key])
                THEN /\ lf.exc = NoExc
                     /\ Stored(key) = << TimeDelta(SecondsOf(DataToExtract(lf).item[key])) >>
                ELSE IF Excluded(DataToExtract(lf).item[key])
                THEN SentinelStored(DataToExtract(lf).item[key])
                ELSE /\ lf.exc # NoExc
                     /\ lf._extracted_data[key] = NewData(DataToExtract(lf).item[key])

\* C35: every entry of the list of a multi-float line type, a parsed one or a
\* missing value, has as many elements as the line type has names; and the
\* table a read built has, for each name, a column as long as the list.
C35_MultiFloatArity ==
    \A key \in DOMAIN lf._extracted_data :
        DataToExtract(lf).item[key].class = "TimeFloatMult" =>
            /\ \A n \in 1..Len(lf._extracted_data[key].value) :
                    Len(lf._extracted_data[key].value[n][2])
                        = Len(DataToExtract(lf).item[key].names)
            /\ (phase = "live" /\ ran_final /\ lf.exc = NoExc) =>
                    \A i \in 1..Len(DataToExtract(lf).item[key].names) :
                        Len(lf.df.run[DataToExtract(lf).item[key].names[i]])
                            = Len(lf._extracted_data[key].value)

\* C36: after every read of the older reader, whatever line the log stops
\* at, the read has raised nothing, all the run-stage lists, the one of the
\* iteration-defining line type included, have one length, and the table has
\* a column of that length for each of them.
C36_OlderReaderEqualLength ==
    phase \in {"live", "failed"} =>
        /\ lf.exc = NoExc
        /\ SameLength(lf)
        /\ lf.df.exists
        /\ \A key \in DataToExtract(lf).many : lf.df.run[key] = lf._extracted_data[key].value

\* C37: the no_values of an AllData object is the length of its list, and
\* every update appends its argument and adds one to it; the no_values of a
\* LastData object is 0 with the value unset until the first update, and
\* every update leaves it 1 and the value equal to its argument; a step
\* that is not an update (get_value) changes neither the value nor the count.
C37_AccumulatorCounts ==
    /\ [](data_obj.self.class = "AllData" =>
                data_obj.self.no_values = Len(data_obj.self._value))
    /\ [](data_obj.self.class = "LastData" =>
                /\ data_obj.self.no_values \in {0, 1}
                /\ data_obj.self.no_values = 0 => data_obj.self._value = None)
    /\ [][ \A d \in Scalars \cup Lists :
                update(d) =>
                    IF data_obj.self.class = "AllData"
                    THEN /\ data_obj'.self._value = Append(data_obj.self._value, d)
                         /\ data_obj'.self.no_values = data_obj.self.no_values + 1
                    ELSE /\ data_obj'.self._value = d
                         /\ data_obj'.self.no_values = 1
         ]_vars
    /\ [][ \A index_key \in {None, Str("simulated")}, index_df \in IndexFrames :
                get_value(index_key, index_df) =>
                    /\ data_obj'.self._value = data_obj.self._value
                    /\ data_obj'.self.no_values = data_obj.self.no_values
         ]_vars
    /\ [][ (data_obj.self.class = "none" /\ data_obj'.self.class # "none") =>
                data_obj'.self.no_values = 0
         ]_vars

\* C37: an AllData object that was given two values and then asked for its
\* table: two values in the list and a count of two.
C37_Witness ==
    /\ data_obj.self.class = "AllData"
    /\ data_obj.self._value = <<NaN, Float(1)>>
    /\ data_obj.self.no_values = 2
    /\ data_obj.returned.kind = "frame"

====
